---- MODULE Spec2Model ----
(***************************************************************************)
(* Model of the SSA -> ACIR lowering pass                                  *)
(* (compiler/noirc_evaluator/src/ssa/acir_gen/mod.rs).                     *)
(*                                                                         *)
(* The pass owns a Context (the caches, the block maps, the side-effects   *)
(* predicate and the block counter) and drives an AcirContext, which owns  *)
(* the output.  The variables below are the fields of Context, the part of *)
(* AcirContext the pass observes (the emitted opcodes, the variable        *)
(* counter, the call stack) and the position of convert_acir_main.         *)
(* One action lowers one whole instruction.                                *)
(***************************************************************************)
EXTENDS Integers, Sequences, FiniteSets, TLC

(***************************************************************************)
(* Bounds of the model.                                                    *)
(***************************************************************************)
\* number of instructions of the entry block
MaxInstr == 3

(***************************************************************************)
(* Field elements.  A FieldElement is held as two limbs <<hi, lo>>, the    *)
(* value being hi * 2^64 + lo, so that try_to_u64 keeps its width.         *)
(***************************************************************************)
FE(n) == <<0, n>>
FEBig == <<1, 0>>
FEAdd(a, b) == <<a[1] + b[1], a[2] + b[2]>>
FESub(a, b) == <<a[1] - b[1], a[2] - b[2]>>
FEMul(a, b) == <<a[1] * b[2] + a[2] * b[1], a[2] * b[2]>>
\* FieldElement::try_to_u64: Some(lo) when the value fits 64 bits
fits_u64(a) == a[1] = 0

(***************************************************************************)
(* SSA types (ir/types.rs).                                                *)
(***************************************************************************)
TField == <<"field">>
TUnsigned(bits) == <<"u", bits>>
TSigned(bits) == <<"i", bits>>
TArray(elems, len) == <<"array", elems, len>>
TSlice(elems) == <<"slice", elems>>

IsNumeric(t) == t[1] \in {"field", "u", "i"}
IsInteger(t) == t[1] \in {"u", "i"}
IsArrayType(t) == t[1] = "array"
IsSliceType(t) == t[1] = "slice"

RECURSIVE SumSeq(_)
SumSeq(s) == IF s = <<>> THEN 0 ELSE Head(s) + SumSeq(Tail(s))

RECURSIVE flattened_size(_)
flattened_size(t) ==
    IF IsArrayType(t)
    THEN t[3] * SumSeq([i \in 1..Len(t[2]) |-> flattened_size(t[2][i])])
    ELSE 1

RECURSIVE contains_slice_element(_)
contains_slice_element(t) ==
    IF IsSliceType(t) THEN TRUE
    ELSE IF IsArrayType(t)
         THEN \E i \in 1..Len(t[2]) : contains_slice_element(t[2][i])
         ELSE FALSE

element_size(t) == Len(t[2])

(***************************************************************************)
(* The data-flow graph of main: the values that exist before lowering      *)
(* (numeric constants, array literals, block parameters).  Instruction     *)
(* results are appended as the entry block is walked.                      *)
(***************************************************************************)
VConst(fe, typ) == <<"const", fe, typ>>
VArray(elems, typ) == <<"array", elems, typ>>
VParam(typ) == <<"param", typ>>
VInst(ins, typ) == <<"inst", ins, typ>>

TPair == TArray(<<TField>>, 2)
TNested == TArray(<<TField, TPair>>, 1)
TFieldSlice == TSlice(<<TField>>)
TNestedSlice == TSlice(<<TFieldSlice>>)

\* the ValueIds of the values above
Id == [c0 |-> 1, c1 |-> 2, c2 |-> 3, cBig |-> 4, px |-> 5, pb |-> 6,
       pA |-> 7, lL |-> 8, pN |-> 9, lS |-> 10, c3 |-> 11, lV |-> 12,
       cU127 |-> 13, cU128 |-> 14, cI127 |-> 15, cI128 |-> 16, cU8 |-> 17]

StaticDfg ==
    << VConst(FE(0), TField),
       VConst(FE(1), TField),
       VConst(FE(2), TField),
       VConst(FEBig, TField),
       VParam(TField),
       VParam(TUnsigned(1)),
       VParam(TPair),
       VArray(<<Id.c1, Id.c2>>, TPair),
       VParam(TNested),
       VArray(<<Id.c1, Id.c2>>, TFieldSlice),
       VConst(FE(3), TField),
       VArray(<<Id.lS>>, TNestedSlice),
       VConst(FE(1), TUnsigned(127)),
       VConst(FE(1), TUnsigned(128)),
       VConst(FE(1), TSigned(127)),
       VConst(FE(1), TSigned(128)),
       VConst(FE(3), TUnsigned(8)) >>

Params == <<Id.px, Id.pb, Id.pA, Id.pN>>

VARIABLES
    dfg,                \* the values of main's DataFlowGraph, by ValueId
    instructions,       \* the entry block's instructions, in SSA order
    last_array_uses,    \* ValueId -> InstructionId, the liveness hint
    static_arrays,      \* the array literals and parameters main's instructions use
    brillig,            \* the catalog of Brillig artifacts, by function label
    overflow_checks,    \* whether the build panics on integer overflow or wraps
    pc,                 \* position in into_acir / convert_acir_main
    lowered,            \* the InstructionIds handed to convert_ssa_instruction
    ssa_values,         \* Context.ssa_values
    current_side_effects_enabled_var,
    initialized_arrays,
    memory_blocks,
    internal_memory_blocks,
    internal_mem_block_lengths,
    max_block_id,
    slice_sizes,
    opcodes,            \* AcirContext: the opcodes emitted so far
    next_var,           \* AcirContext: next fresh variable
    acir_vars,          \* AcirContext.vars: the data of the variables computed from others
    return_witnesses,   \* AcirContext: the witnesses marked as returned
    generated_acir,     \* what into_acir returned on success
    error,              \* the RuntimeError the pass returned, if any
    trace               \* what the last handler saw on entry and the path it took

vars == << dfg, instructions, last_array_uses, static_arrays, brillig, overflow_checks,
           pc, lowered, ssa_values,
           current_side_effects_enabled_var, initialized_arrays, memory_blocks,
           internal_memory_blocks, internal_mem_block_lengths, max_block_id,
           slice_sizes, opcodes, next_var, acir_vars, return_witnesses,
           generated_acir, error, trace >>

type_of_value(c, id) == LET v == c.dfg[id] IN v[Len(v)]
\* dfg.resolve: after the SSA passes every ValueId of the entry block is its own
\* representative
resolve(id) == id

(***************************************************************************)
(* The Context threaded through a handler.  Every operator below takes the *)
(* context c and returns the context after the call, paired with the       *)
(* call's value where it has one.  c.err is the Err the call returned      *)
(* ("none" for Ok); c.cur is the InstructionId being lowered.              *)
(***************************************************************************)
\* CallStack::new(), the call stack without frames
CallStackNew == <<>>
\* dfg.get_call_stack: the frames recorded for an instruction
get_call_stack(instruction) == <<instruction>>

Ctx(cur, d, lau) ==
    [ dfg |-> d,
      instructions |-> instructions,
      last_array_uses |-> lau,
      ssa_values |-> ssa_values,
      pred |-> current_side_effects_enabled_var,
      initialized_arrays |-> initialized_arrays,
      memory_blocks |-> memory_blocks,
      internal_memory_blocks |-> internal_memory_blocks,
      internal_mem_block_lengths |-> internal_mem_block_lengths,
      max_block_id |-> max_block_id,
      slice_sizes |-> slice_sizes,
      opcodes |-> opcodes,
      next_var |-> next_var,
      acir_vars |-> acir_vars,
      brillig |-> brillig,
      overflow_checks |-> overflow_checks,
      call_stack |-> CallStackNew,
      err |-> "none",
      err_index |-> 0,
      err_array_size |-> 0,
      err_call_stack |-> CallStackNew,
      path |-> "none",
      cur |-> cur ]

Ret(c, v) == [c |-> c, v |-> v]
\* Err(e) with the call stack the site attaches
FailWith(c, e, call_stack) ==
    IF c.err = "none" THEN [c EXCEPT !.err = e, !.err_call_stack = call_stack] ELSE c
\* Err(e) with call_stack: self.acir_context.get_call_stack()
Fail(c, e) == FailWith(c, e, c.call_stack)
Failed(c) == c.err # "none"
\* the rest K of a handler applied to what a call returned
Bind(m, K(_)) == K(m)

(***************************************************************************)
(* AcirValue and AcirVar.  An AcirVar is held by its data: a constant      *)
(* <<"c", fe>> or a witness-backed variable <<"w", n>>.                    *)
(***************************************************************************)
Var(var, typ) == <<"Var", var, typ>>
Array(elems) == <<"Array", elems>>
DynamicArray(block, len, ets) == <<"DynamicArray", block, len, ets>>
IsVar(v) == v[1] = "Var"
IsArray(v) == v[1] = "Array"
IsDynamicArray(v) == v[1] = "DynamicArray"

Const(fe) == <<"c", fe>>
Wit(n) == <<"w", n>>
IsConst(a) == a[1] = "c"
Zero == Const(FE(0))
One == Const(FE(1))

(***************************************************************************)
(* The constraint builder (acir_ir::acir_variable::AcirContext).           *)
(***************************************************************************)
add_constant(fe) == Const(fe)
is_constant_one(a) == a = One

add_variable(c) == Ret([c EXCEPT !.next_var = @ + 1], Wit(c.next_var))

\* add_data: a fresh variable whose data is the operation op on a and b
add_data(c, op, a, b) ==
    Ret([c EXCEPT !.next_var = @ + 1,
                  !.acir_vars = (c.next_var :> <<op, a, b>>) @@ @],
        Wit(c.next_var))

push_opcode(c, op) == [c EXCEPT !.opcodes = Append(@, op)]

mul_var(c, a, b) ==
    IF IsConst(a) /\ IsConst(b) THEN Ret(c, Const(FEMul(a[2], b[2])))
    ELSE IF a = Zero \/ b = Zero THEN Ret(c, Zero)
    ELSE IF a = One THEN Ret(c, b)
    ELSE IF b = One THEN Ret(c, a)
    ELSE add_data(c, "mul", a, b)

add_var(c, a, b) ==
    IF IsConst(a) /\ IsConst(b) THEN Ret(c, Const(FEAdd(a[2], b[2])))
    ELSE IF a = Zero THEN Ret(c, b)
    ELSE IF b = Zero THEN Ret(c, a)
    ELSE add_data(c, "add", a, b)

sub_var(c, a, b) ==
    IF IsConst(a) /\ IsConst(b) THEN Ret(c, Const(FESub(a[2], b[2])))
    ELSE IF b = Zero THEN Ret(c, a)
    ELSE add_data(c, "sub", a, b)

MemOp(kind, block, index, value, cur) ==
    [op |-> kind, block |-> block, index |-> index, value |-> value, ins |-> cur]

read_from_memory(c, block, index) ==
    Bind(add_variable(c), LAMBDA r :
        Ret(push_opcode(r.c, MemOp("read", block, index, r.v, c.cur)), r.v))

write_to_memory(c, block, index, value) ==
    push_opcode(c, MemOp("write", block, index, value, c.cur))

\* reads block[0..len-1] at constant indices; returns the sequence of variables read
RECURSIVE read_all(_, _, _, _, _)
read_all(c, block, i, len, acc) ==
    IF i >= len THEN Ret(c, acc)
    ELSE Bind(read_from_memory(c, block, add_constant(FE(i))), LAMBDA r :
             read_all(r.c, block, i + 1, len, Append(acc, r.v)))

\* AcirContext::initialize_array_inner: the witnesses of a value, in flattened
\* order; a dynamic array inside it is read back element by element
RECURSIVE initialize_array_inner(_, _, _)
initialize_array_inner(c, acc, input) ==
    LET RECURSIVE each(_, _, _)
        each(cc, a, vs) ==
            IF vs = <<>> THEN Ret(cc, a)
            ELSE Bind(initialize_array_inner(cc, a, Head(vs)), LAMBDA r :
                     each(r.c, r.v, Tail(vs)))
    IN IF IsVar(input) THEN Ret(c, Append(acc, input[2]))
       ELSE IF IsArray(input) THEN each(c, acc, input[2])
       ELSE Bind(read_all(c, input[2], 0, input[3], <<>>), LAMBDA r :
                Ret(r.c, acc \o r.v))

acir_initialize_array(c, block, len, value) ==
    Bind(initialize_array_inner(c, <<>>, value), LAMBDA r :
        push_opcode(r.c, MemOp("init", block, len, r.v, c.cur)))

(***************************************************************************)
(* Context: block ids, initialization, the value cache.                    *)
(***************************************************************************)
\* block_id handing out the counter value without advancing the counter
block_id_unadvanced(c, value) ==
    IF value \in DOMAIN c.memory_blocks
    THEN Ret(c, c.memory_blocks[value])
    ELSE Ret([c EXCEPT !.memory_blocks = (value :> c.max_block_id) @@ @],
             c.max_block_id)

block_id(c, value) ==
    IF value \in DOMAIN c.memory_blocks
    THEN Ret(c, c.memory_blocks[value])
    ELSE Ret([c EXCEPT !.max_block_id = @ + 1,
                       !.memory_blocks = (value :> c.max_block_id) @@ @],
             c.max_block_id)

\* internal_block_id handing out the counter value without advancing the counter
internal_block_id_unadvanced(c, value) ==
    IF value \in DOMAIN c.internal_memory_blocks
    THEN Ret(c, c.internal_memory_blocks[value])
    ELSE Ret([c EXCEPT !.internal_memory_blocks = (value :> c.max_block_id) @@ @],
             c.max_block_id)

internal_block_id(c, value) ==
    IF value \in DOMAIN c.internal_memory_blocks
    THEN Ret(c, c.internal_memory_blocks[value])
    ELSE Ret([c EXCEPT !.max_block_id = @ + 1,
                       !.internal_memory_blocks = (value :> c.max_block_id) @@ @],
             c.max_block_id)

\* initialize_array without the insert into initialized_arrays
initialize_array_unrecorded(c, array, len, value) ==
    acir_initialize_array(c, array, len, value)

initialize_array(c, array, len, value) ==
    [acir_initialize_array(c, array, len, value)
        EXCEPT !.initialized_arrays = @ \cup {array}]

\* HashMap::insert on ssa_values
cache_insert(c, id, value) == [c EXCEPT !.ssa_values = (id :> value) @@ @]

\* define_result rebinding the cached values as well
define_result_rebinding(c, result_id, result) ==
    [c EXCEPT !.ssa_values = [id \in DOMAIN @ \cup {result_id} |-> result]]

define_result(c, result_id, result) == cache_insert(c, result_id, result)

define_result_var(c, result_id, result) ==
    define_result(c, result_id, Var(result, type_of_value(c, result_id)))

RECURSIVE convert_value(_, _)
convert_value(c, value_id0) ==
    LET value_id == resolve(value_id0)
        value == c.dfg[value_id]
        RECURSIVE each(_, _, _)
        each(cc, ids, acc) ==
            IF ids = <<>> THEN Ret(cc, acc)
            ELSE Bind(convert_value(cc, Head(ids)), LAMBDA r :
                     each(r.c, Tail(ids), Append(acc, r.v)))
    IN IF value_id \in DOMAIN c.ssa_values THEN Ret(c, c.ssa_values[value_id])
       ELSE IF value[1] = "const"
       THEN Ret(cache_insert(c, value_id, Var(add_constant(value[2]), value[3])),
                Var(add_constant(value[2]), value[3]))
       ELSE IF value[1] = "array"
       THEN Bind(each(c, value[2], <<>>), LAMBDA es :
                Ret(cache_insert(es.c, value_id, Array(es.v)), Array(es.v)))
       ELSE \* unreachable!("ICE: Should have been in cache")
            Ret(Fail(c, "panic"), Var(Zero, TField))

convert_numeric_value(c, value_id) ==
    Bind(convert_value(c, value_id), LAMBDA r :
        IF IsVar(r.v) THEN Ret(r.c, r.v[2])
        ELSE Ret(Fail(r.c, "InternalError"), Zero))

RECURSIVE flattened_value_size(_)
flattened_value_size(value) ==
    IF IsDynamicArray(value) THEN value[3]
    ELSE IF IsVar(value) THEN 1
    ELSE SumSeq([i \in 1..Len(value[2]) |-> flattened_value_size(value[2][i])])

RECURSIVE flattened_slice_size(_, _)
flattened_slice_size(c, array_id) ==
    LET value == c.dfg[array_id]
    IN IF value[1] = "array"
       THEN SumSeq([i \in 1..Len(value[2]) |-> flattened_slice_size(c, value[2][i])])
       ELSE IF value[1] = "const" THEN 1
       ELSE flattened_value_size(convert_value(c, array_id).v)

\* slice_sizes entries are <<len, parent>>; parent 0 stands for None
RECURSIVE compute_slice_sizes(_, _, _, _)
compute_slice_sizes(c, current_array_id, parent_array, inner_parent_array) ==
    LET value == c.dfg[current_array_id]
        true_len == Len(value[2]) \div element_size(value[3])
        RECURSIVE each(_, _)
        each(cc, ids) ==
            IF ids = <<>> THEN cc
            ELSE each(IF IsSliceType(type_of_value(c, Head(ids)))
                      THEN IF parent_array # 0
                           THEN compute_slice_sizes(cc, Head(ids), parent_array,
                                                    current_array_id)
                           ELSE compute_slice_sizes(cc, Head(ids), current_array_id,
                                                    current_array_id)
                      ELSE cc,
                      Tail(ids))
    IN IF value[1] = "array" /\ IsSliceType(value[3])
       THEN each(IF parent_array # 0
                 THEN [c EXCEPT !.slice_sizes[parent_array] =
                                    Append(@, <<true_len, inner_parent_array>>)]
                 ELSE [c EXCEPT !.slice_sizes =
                                    (current_array_id :> << <<true_len, 0>> >>) @@ @],
                 value[2])
       ELSE c

copy_dynamic_array(c, source, destination, array_len) ==
    Bind(read_all(c, source, 0, array_len, <<>>), LAMBDA r :
        initialize_array(r.c, destination, array_len,
                         Array([i \in 1..Len(r.v) |-> Var(r.v[i], TField)])))

\* returns <<array_id, array_typ, block_id>>
\* check_array_is_initialized without the initialization on demand
check_array_is_initialized_unchecked(c, array) ==
    Bind(block_id(c, resolve(array)), LAMBDA b :
        Ret(b.c, <<resolve(array), type_of_value(c, resolve(array)), b.v>>))

check_array_is_initialized(c, array) ==
    LET array_id == resolve(array)
        array_typ == type_of_value(c, array_id)
    IN Bind(block_id(c, array_id), LAMBDA b :
           IF b.v \in b.c.initialized_arrays
           THEN Ret(b.c, <<array_id, array_typ, b.v>>)
           ELSE IF c.dfg[array_id][1] \in {"array", "inst"}
           THEN Bind(convert_value(b.c, array_id), LAMBDA value :
                    Ret(initialize_array(value.c, b.v,
                                         IF ~contains_slice_element(array_typ)
                                         THEN flattened_size(array_typ)
                                         ELSE flattened_slice_size(value.c, array_id),
                                         value.v),
                        <<array_id, array_typ, b.v>>))
           ELSE Ret(Fail(b.c, "InternalError"), <<array_id, array_typ, b.v>>))

(***************************************************************************)
(* Element-type-sizes tables and the flattened index.                      *)
(***************************************************************************)
\* a table of the first size only
prefix_sums_of_head(sizes, acc) == Append(acc, Head(sizes))

\* the sizes pushed as they are, without the running sum
prefix_sums_unsummed(sizes, acc) == acc \o sizes

\* the running prefix sum pushed by the loops of init_element_type_sizes_array
RECURSIVE prefix_sums(_, _)
prefix_sums(sizes, acc) ==
    IF sizes = <<>> THEN acc
    ELSE prefix_sums(Tail(sizes), Append(acc, Head(sizes) + acc[Len(acc)]))

\* the table initialized without its length being recorded
init_type_sizes_block_untracked(c, element_type_sizes, flat_elem_type_sizes) ==
    Bind(initialize_array(c, element_type_sizes, Len(flat_elem_type_sizes),
                          Array([i \in 1..Len(flat_elem_type_sizes) |->
                                     Var(add_constant(FE(flat_elem_type_sizes[i])), TField)])),
         LAMBDA c1 : Ret(c1, element_type_sizes))

\* the end of init_element_type_sizes_array: the table is initialized with the
\* sizes and its length recorded
init_type_sizes_block(c, element_type_sizes, flat_elem_type_sizes) ==
    Bind(initialize_array(c, element_type_sizes, Len(flat_elem_type_sizes),
                          Array([i \in 1..Len(flat_elem_type_sizes) |->
                                     Var(add_constant(FE(flat_elem_type_sizes[i])), TField)])),
         LAMBDA c1 :
             Ret([c1 EXCEPT !.internal_mem_block_lengths =
                                (element_type_sizes :> Len(flat_elem_type_sizes)) @@ @],
                 element_type_sizes))

\* the arm of init_element_type_sizes_array for an instruction result or a
\* parameter, on the context ib.c and the table block ib.v
init_type_sizes_of_value(ib, array_id) ==
    Bind(convert_value(ib.c, array_id), LAMBDA r :
        IF IsDynamicArray(r.v)
        THEN IF r.v[4] \in r.c.initialized_arrays
                /\ r.v[4] \in DOMAIN r.c.internal_mem_block_lengths
             THEN Bind(copy_dynamic_array(r.c, r.v[4], ib.v,
                                          r.c.internal_mem_block_lengths[r.v[4]]),
                       LAMBDA c1 :
                           Ret([c1 EXCEPT !.internal_mem_block_lengths =
                                    (ib.v :> r.c.internal_mem_block_lengths[r.v[4]]) @@ @],
                               ib.v))
             ELSE Ret(Fail(r.c, "InternalError"), ib.v)
        ELSE IF IsArray(r.v)
        THEN init_type_sizes_block(r.c, ib.v,
                 prefix_sums([i \in 1..Len(r.v[2]) |-> flattened_value_size(r.v[2][i])],
                             <<0>>))
        ELSE Ret(Fail(r.c, "InternalError"), ib.v))

\* the arm of init_element_type_sizes_array for an array literal
init_type_sizes_of_literal(ib, array_id) ==
    Bind(compute_slice_sizes(ib.c, array_id, 0, 0), LAMBDA c1 :
        init_type_sizes_block(c1, ib.v,
            prefix_sums([i \in 1..Len(c1.dfg[array_id][2]) |->
                             flattened_slice_size(c1, c1.dfg[array_id][2][i])],
                        <<0>>)))

init_element_type_sizes_array(c, array_typ, array_id) ==
    Bind(internal_block_id(c, array_id), LAMBDA ib :
        IF ib.v \in ib.c.initialized_arrays THEN Ret(ib.c, ib.v)
        ELSE IF ~(IsArrayType(array_typ) \/ IsSliceType(array_typ))
        THEN Ret(Fail(ib.c, "InternalError"), ib.v)
        ELSE IF c.dfg[array_id][1] = "array" THEN init_type_sizes_of_literal(ib, array_id)
        ELSE IF c.dfg[array_id][1] \in {"inst", "param"}
        THEN init_type_sizes_of_value(ib, array_id)
        ELSE Ret(Fail(ib.c, "InternalError"), ib.v))

\* the table read at the SSA index itself, whatever the predicate is
table_read_at_index(c, table, var_index) == read_from_memory(c, table, var_index)

\* var_index * pred + (1 - pred) * 0, read from the table
predicated_table_read(c, table, var_index) ==
    Bind(mul_var(c, var_index, c.pred), LAMBDA true_pred :
    Bind(sub_var(true_pred.c, add_constant(FE(1)), c.pred), LAMBDA not_pred :
    Bind(mul_var(not_pred.c, not_pred.v, add_constant(FE(0))), LAMBDA false_pred :
    Bind(add_var(false_pred.c, true_pred.v, false_pred.v), LAMBDA idx :
        read_from_memory(idx.c, table, idx.v)))))

get_flattened_index(c, array_typ, array_id, var_index) ==
    Bind(init_element_type_sizes_array(c, array_typ, array_id), LAMBDA e :
        IF Failed(e.c) THEN Ret(e.c, Zero)
        ELSE predicated_table_read(e.c, e.v, var_index))

(***************************************************************************)
(* Reads and writes on the dynamic path.                                   *)
(***************************************************************************)
RetI(c, v, i) == [c |-> c, v |-> v, i |-> i]

\* returns the value read and the advanced var_index
RECURSIVE array_get_value(_, _, _, _, _)
array_get_value(c, ssa_type, block, var_index, sizes) ==
    LET one == add_constant(FE(1))
        RECURSIVE each(_, _, _, _, _)
        \* one pass over element_types, typs being what is left of it
        each(cc, typs, idx, acc, ss) ==
            IF typs = <<>> THEN RetI(cc, acc, idx)
            ELSE Bind(array_get_value(cc, Head(typs), block, idx, ss), LAMBDA r :
                     each(r.c, Tail(typs), r.i, Append(acc, r.v), ss))
        RECURSIVE times(_, _, _, _, _)
        times(cc, n, idx, acc, ss) ==
            IF n = 0 THEN RetI(cc, acc, idx)
            ELSE Bind(each(cc, ssa_type[2], idx, acc, ss), LAMBDA r :
                     times(r.c, n - 1, r.i, r.v, ss))
    IN IF IsNumeric(ssa_type)
       THEN Bind(read_from_memory(c, block, var_index), LAMBDA read :
            Bind(add_var(read.c, var_index, one), LAMBDA nxt :
                RetI(nxt.c, Var(read.v, ssa_type), nxt.v)))
       ELSE IF IsArrayType(ssa_type)
       THEN Bind(times(c, ssa_type[3], var_index, <<>>, sizes), LAMBDA r :
                RetI(r.c, Array(r.v), r.i))
       ELSE IF sizes = <<>>
       THEN RetI(Fail(c, "panic"), Array(<<>>), var_index)
       ELSE Bind(times(c, Head(sizes)[1], var_index, <<>>, Tail(sizes)), LAMBDA r :
                RetI(r.c, Array(r.v), r.i))

\* array_get once the array is known to be initialized; chk is what
\* check_array_is_initialized returned
array_get_checked(chk, result_id, res_typ, var_index) ==
    IF Failed(chk.c) THEN chk.c
    ELSE IF ~contains_slice_element(res_typ)
    THEN Bind(array_get_value(chk.c, res_typ, chk.v[3], var_index, <<>>), LAMBDA r :
             IF Failed(r.c) THEN r.c ELSE define_result(r.c, result_id, r.v))
    ELSE IF chk.v[1] \notin DOMAIN chk.c.slice_sizes
              \/ chk.c.slice_sizes[chk.v[1]] = <<>>
    THEN Fail(chk.c, "panic")
    ELSE Bind(array_get_value(chk.c, res_typ, chk.v[3], var_index,
                              Tail(chk.c.slice_sizes[chk.v[1]])),
              LAMBDA r :
                  IF Failed(r.c) THEN r.c
                  ELSE define_result([r.c EXCEPT !.slice_sizes =
                                          (result_id :> Tail(chk.c.slice_sizes[chk.v[1]])) @@ @],
                                     result_id, r.v))

array_get(c, result_id, array, var_index) ==
    array_get_checked(check_array_is_initialized(c, array), result_id,
                      type_of_value(c, result_id), var_index)

\* returns the context and the advanced var_index
RECURSIVE array_set_value(_, _, _, _)
array_set_value(c, value, block, var_index) ==
    LET one == add_constant(FE(1))
        RECURSIVE each(_, _, _)
        each(cc, vs, idx) ==
            IF vs = <<>> THEN RetI(cc, <<>>, idx)
            ELSE Bind(array_set_value(cc, Head(vs), block, idx), LAMBDA r :
                     each(r.c, Tail(vs), r.i))
    IN IF IsVar(value)
       THEN Bind(add_var(write_to_memory(c, block, var_index, value[2]), var_index, one),
                 LAMBDA nxt : RetI(nxt.c, <<>>, nxt.v))
       ELSE IF IsArray(value) THEN each(c, value[2], var_index)
       ELSE Bind(read_all(c, value[2], 0, value[3], <<>>), LAMBDA r :
                each(r.c, [i \in 1..Len(r.v) |-> Var(r.v[i], TField)], var_index))

\* AcirValue::flatten: the (variable, type) leaves; a dynamic array cannot be flattened
RECURSIVE has_dynamic(_)
has_dynamic(v) ==
    IF IsDynamicArray(v) THEN TRUE
    ELSE IF IsVar(v) THEN FALSE
    ELSE \E i \in 1..Len(v[2]) : has_dynamic(v[2][i])

RECURSIVE Concat(_)
Concat(ss) == IF ss = <<>> THEN <<>> ELSE Head(ss) \o Concat(Tail(ss))

RECURSIVE flatten(_)
flatten(v) ==
    IF IsVar(v) THEN << v >>
    ELSE IF IsArray(v) THEN Concat([i \in 1..Len(v[2]) |-> flatten(v[2][i])])
    ELSE <<>>

\* array_set copying the input whatever map_array says
result_block_copying(c, result_id, block, array_len, map_array) ==
    Bind(block_id(c, result_id), LAMBDA rb :
        Ret(copy_dynamic_array(rb.c, block, rb.v, array_len), rb.v))

\* array_set writing into the input's block whatever map_array says
result_block_shared(c, result_id, block, array_len, map_array) ==
    Ret([c EXCEPT !.memory_blocks = (result_id :> block) @@ @], block)

\* lines 982-994 of array_set: the block the result lives in
result_block(c, result_id, block, array_len, map_array) ==
    IF map_array
    THEN Ret([c EXCEPT !.memory_blocks = (result_id :> block) @@ @], block)
    ELSE Bind(block_id(c, result_id), LAMBDA rb :
             Ret(copy_dynamic_array(rb.c, block, rb.v, array_len), rb.v))

\* lines 998-1018 of array_set: the result inherits the input's slice sizes
propagate_slice_sizes(c, array_typ, array_id, result_id) ==
    IF IsSliceType(array_typ)
       /\ \E i \in 1..Len(array_typ[2]) : contains_slice_element(array_typ[2][i])
    THEN IF array_id \in DOMAIN c.slice_sizes
         THEN [c EXCEPT !.slice_sizes = (result_id :> c.slice_sizes[array_id]) @@ @]
         ELSE Fail(c, "panic")
    ELSE c

\* array_set once the array is known to be initialized; chk is what
\* check_array_is_initialized returned, array_len the flattened length
array_set_checked(chk, array_len, result_id, var_index, store_value, map_array) ==
    IF Failed(chk.c) THEN chk.c
    ELSE Bind(result_block(chk.c, result_id, chk.v[3], array_len, map_array), LAMBDA rb :
         Bind(array_set_value(rb.c, store_value, rb.v, var_index), LAMBDA w :
         Bind(propagate_slice_sizes(w.c, chk.v[2], chk.v[1], result_id), LAMBDA c1 :
             IF Failed(c1) THEN c1
             ELSE Bind(init_element_type_sizes_array(c1, chk.v[2], chk.v[1]), LAMBDA e :
                      IF Failed(e.c) THEN e.c
                      ELSE define_result(e.c, result_id,
                                         DynamicArray(rb.v, array_len, e.v))))))

\* the flattened length of the array check_array_is_initialized returned
checked_array_len(chk) ==
    IF ~contains_slice_element(chk.v[2])
    THEN flattened_size(chk.v[2])
    ELSE flattened_slice_size(chk.c, chk.v[1])

array_set(c, result_id, array, var_index, store_value, map_array) ==
    Bind(check_array_is_initialized(c, array), LAMBDA chk :
        array_set_checked(chk, checked_array_len(chk), result_id, var_index, store_value,
                          map_array))

\* the stored value written whatever the predicate is
predicated_value_unmixed(c, store_var, dummy_var) == Ret(c, Var(store_var, TField))

\* store_value * pred + (1 - pred) * dummy
predicated_value(c, store_var, dummy_var) ==
    Bind(mul_var(c, store_var, c.pred), LAMBDA true_pred :
    Bind(sub_var(true_pred.c, add_constant(FE(1)), c.pred), LAMBDA not_pred :
    Bind(mul_var(not_pred.c, not_pred.v, dummy_var), LAMBDA false_pred :
    Bind(add_var(false_pred.c, true_pred.v, false_pred.v), LAMBDA new_value :
        Ret(new_value.c, Var(new_value.v, TField))))))

RECURSIVE convert_array_set_store_value(_, _, _)
convert_array_set_store_value(c, store_value, dummy_value) ==
    LET RECURSIVE each(_, _, _, _)
        each(cc, vals, dummies, acc) ==
            IF vals = <<>> \/ dummies = <<>> THEN Ret(cc, Array(acc))
            ELSE Bind(convert_array_set_store_value(cc, Head(vals), Head(dummies)),
                      LAMBDA r : each(r.c, Tail(vals), Tail(dummies), Append(acc, r.v)))
    IN IF IsVar(store_value) /\ IsVar(dummy_value)
       THEN predicated_value(c, store_value[2], dummy_value[2])
       ELSE IF IsArray(store_value) /\ IsArray(dummy_value)
       THEN IF Len(store_value[2]) # Len(dummy_value[2])
            THEN Ret(Fail(c, "panic"), store_value)
            ELSE each(c, store_value[2], dummy_value[2], <<>>)
       ELSE IF IsDynamicArray(store_value) /\ IsArray(dummy_value)
       THEN IF has_dynamic(dummy_value) \/ store_value[3] # Len(flatten(dummy_value))
            THEN Ret(Fail(c, "panic"), store_value)
            ELSE Bind(read_all(c, store_value[2], 0, store_value[3], <<>>), LAMBDA r :
                     each(r.c, [i \in 1..Len(r.v) |-> Var(r.v[i], TField)],
                          flatten(dummy_value), <<>>))
       ELSE Ret(Fail(c, "panic"), store_value)

None == <<"None">>

\* the dummy value read at the index (the predicate is not the constant 1) and
\* the stored value multiplexed with it; c1 is the context after the slice
\* sizes of the stored value were computed
multiplex_with_dummy(c1, sv, store_value, store_type, block, var_index, new_index) ==
    IF contains_slice_element(store_type) /\ store_value \notin DOMAIN c1.slice_sizes
    THEN RetI(Fail(c1, "InternalError"), None, new_index)
    ELSE Bind(array_get_value(c1, store_type, block, var_index,
                              IF contains_slice_element(store_type)
                              THEN c1.slice_sizes[store_value]
                              ELSE <<>>),
              LAMBDA dummy :
                  IF Failed(dummy.c) THEN RetI(dummy.c, None, new_index)
                  ELSE Bind(convert_array_set_store_value(dummy.c, sv.v, dummy.v),
                            LAMBDA nv : RetI(nv.c, nv.v, new_index)))

\* the stored value multiplexed with a dummy read whatever the predicate is
predicated_store_value_always(c, store_value, block, var_index, new_index) ==
    Bind(convert_value(c, store_value), LAMBDA sv :
        multiplex_with_dummy(sv.c, sv, store_value, type_of_value(c, store_value), block,
                             var_index, new_index))

\* the value an ArraySet stores: the converted store_value, multiplexed with a
\* dummy read when the predicate is not the constant 1
predicated_store_value(c, store_value, block, var_index, new_index) ==
    Bind(convert_value(c, store_value), LAMBDA sv :
        IF is_constant_one(sv.c.pred) THEN RetI(sv.c, sv.v, new_index)
        ELSE multiplex_with_dummy(
                 IF contains_slice_element(type_of_value(c, store_value))
                 THEN compute_slice_sizes(sv.c, store_value, 0, 0)
                 ELSE sv.c,
                 sv, store_value, type_of_value(c, store_value), block, var_index,
                 new_index))

\* convert_array_operation_inputs from the flattened index fi on
predicated_inputs(fi, block, store_value) ==
    Bind(mul_var(fi.c, fi.v, fi.c.pred), LAMBDA predicate_index :
        IF store_value = 0
        THEN RetI(predicate_index.c, None,
                  IF is_constant_one(fi.c.pred) THEN fi.v ELSE predicate_index.v)
        ELSE predicated_store_value(predicate_index.c, store_value, block,
                 predicate_index.v,
                 IF is_constant_one(fi.c.pred) THEN fi.v ELSE predicate_index.v))

\* returns the new index (i) and the value to store (v, None for an ArrayGet)
convert_array_operation_inputs(c, array, index, store_value) ==
    Bind(check_array_is_initialized(c, array), LAMBDA chk :
        IF Failed(chk.c) THEN RetI(chk.c, None, Zero)
        ELSE Bind(convert_numeric_value(chk.c, index), LAMBDA iv :
                 IF Failed(iv.c) THEN RetI(iv.c, None, Zero)
                 ELSE Bind(get_flattened_index(iv.c, chk.v[2], chk.v[1], iv.v), LAMBDA fi :
                          IF Failed(fi.c) THEN RetI(fi.c, None, Zero)
                          ELSE predicated_inputs(fi, chk.v[3], store_value))))

\* IndexOutOfBounds built with its two fields exchanged
FailIndexExchanged(c, e, index, array_size) ==
    [c EXCEPT !.err = e, !.err_index = array_size, !.err_array_size = index,
              !.err_call_stack = c.call_stack]

FailIndex(c, e, index, array_size) ==
    [c EXCEPT !.err = e, !.err_index = index, !.err_array_size = array_size,
              !.err_call_stack = c.call_stack]

\* a fast path reading the element before the index and storing nothing
constant_index_value_shifted(array, index, store) ==
    IF store = None THEN array[index] ELSE Array(array)

\* the value the constant-index fast path defines
constant_index_value(array, index, store) ==
    IF store = None THEN array[index + 1]
    ELSE Array([array EXCEPT ![index + 1] = store])

\* handle_constant_index on a static Array r.v with the constant index
\* index_const
handle_constant_index_of_array(r, result_id, index_const, store_value) ==
    IF ~fits_u64(index_const)
    THEN Ret(Fail(r.c, "TypeConversion"), FALSE)
    ELSE IF is_constant_one(r.c.pred)
    THEN IF index_const[2] >= Len(r.v[2])
         THEN Ret(FailIndex(r.c, "IndexOutOfBounds", index_const[2], Len(r.v[2])), FALSE)
         ELSE Bind(IF store_value # 0 THEN convert_value(r.c, store_value)
                   ELSE Ret(r.c, None),
                   LAMBDA sv :
                       Ret(define_result(sv.c, result_id,
                               constant_index_value(r.v[2], index_const[2], sv.v)),
                           TRUE))
    ELSE IF index_const[2] < Len(r.v[2]) /\ store_value = 0
    THEN Ret(define_result(r.c, result_id, r.v[2][index_const[2] + 1]), TRUE)
    ELSE Ret(r.c, FALSE)

\* returns TRUE when the instruction was handled on the fast path
handle_constant_index(c, result_id, index, array, store_value) ==
    IF IsArrayType(type_of_value(c, array))
    THEN Bind(convert_value(c, array), LAMBDA r :
             IF IsVar(r.v) THEN Ret(Fail(r.c, "InternalError"), FALSE)
             ELSE IF IsArray(r.v) /\ c.dfg[index][1] = "const"
             THEN handle_constant_index_of_array(r, result_id, c.dfg[index][2], store_value)
             ELSE Ret(r.c, FALSE))
    ELSE IF IsSliceType(type_of_value(c, array)) THEN Ret(c, FALSE)
    ELSE Ret(Fail(c, "panic"), FALSE)

\* handle_array_operation after the fast path declined
array_operation_dynamic(c, instruction, ins) ==
    Bind(convert_array_operation_inputs(c, ins.a, ins.i, ins.v), LAMBDA inp :
        IF Failed(inp.c) THEN inp.c
        ELSE IF inp.v # None
        THEN array_set(inp.c, ins.r, ins.a, inp.i, inp.v,
                       resolve(ins.a) \in DOMAIN c.last_array_uses
                       /\ c.last_array_uses[resolve(ins.a)] = instruction)
        ELSE array_get(inp.c, ins.r, ins.a, inp.i))

\* ins is the instruction record, instruction its InstructionId
handle_array_operation(c, instruction, ins) ==
    Bind(handle_constant_index(c, ins.r, ins.i, ins.a, ins.v), LAMBDA h :
        IF Failed(h.c) THEN h.c
        ELSE IF h.v THEN [h.c EXCEPT !.path = "fast"]
        ELSE array_operation_dynamic([h.c EXCEPT !.path = "dynamic"], instruction, ins))

(***************************************************************************)
(* Parameter binding.                                                      *)
(***************************************************************************)
add_numeric_input_var(c, numeric_type) ==
    Bind(add_variable(c), LAMBDA r :
        IF numeric_type[1] = "u"
        THEN Ret(push_opcode(r.c, MemOp("range", 0, r.v, numeric_type[2], c.cur)), r.v)
        ELSE r)

RECURSIVE create_value_from_type(_, _)
create_value_from_type(c, param_type) ==
    LET RECURSIVE each(_, _, _)
        each(cc, typs, acc) ==
            IF typs = <<>> THEN Ret(cc, acc)
            ELSE Bind(create_value_from_type(cc, Head(typs)), LAMBDA r :
                     each(r.c, Tail(typs), Append(acc, r.v)))
        RECURSIVE times(_, _, _)
        times(cc, n, acc) ==
            IF n = 0 THEN Ret(cc, acc)
            ELSE Bind(each(cc, param_type[2], acc), LAMBDA r : times(r.c, n - 1, r.v))
    IN IF IsNumeric(param_type)
       THEN Bind(add_numeric_input_var(c, param_type), LAMBDA r :
                Ret(r.c, Var(r.v, param_type)))
       ELSE IF IsArrayType(param_type)
       THEN Bind(times(c, param_type[3], <<>>), LAMBDA r : Ret(r.c, Array(r.v)))
       ELSE Ret(Fail(c, "panic"), Array(<<>>))

\* the block of an array parameter is allocated and initialized
bind_array_param(c, param_id, typ, value) ==
    Bind(block_id(c, param_id), LAMBDA b :
        IF IsArrayType(typ)
        THEN cache_insert(initialize_array(b.c, b.v, flattened_size(typ), value),
                          param_id, value)
        ELSE Fail(b.c, "InternalError"))

bind_block_param(c, param_id) ==
    Bind(create_value_from_type(c, type_of_value(c, param_id)), LAMBDA value :
        IF Failed(value.c) THEN value.c
        ELSE IF IsArray(value.v)
        THEN bind_array_param(value.c, param_id, type_of_value(c, param_id), value.v)
        ELSE cache_insert(value.c, param_id, value.v))

RECURSIVE convert_ssa_block_params(_, _)
convert_ssa_block_params(c, params) ==
    IF params = <<>> \/ Failed(c) THEN c
    ELSE convert_ssa_block_params(bind_block_param(c, Head(params)), Tail(params))

(***************************************************************************)
(* Instructions.  An instruction is a record: op, the array or condition   *)
(* a, the index i, the stored value v (0 when absent) and the result       *)
(* ValueId r (0 when the instruction has no result).                       *)
(***************************************************************************)
Instr(op, a, i, v, r) == [op |-> op, a |-> a, i |-> i, v |-> v, r |-> r]

\* EnableSideEffects as a conjunction with the predicate in force
enable_side_effects_stacking(c, condition) ==
    Bind(convert_numeric_value(c, condition), LAMBDA r :
        IF Failed(r.c) THEN r.c
        ELSE Bind(mul_var(r.c, r.c.pred, r.v), LAMBDA m : [m.c EXCEPT !.pred = m.v]))

enable_side_effects(c, condition) ==
    Bind(convert_numeric_value(c, condition), LAMBDA r :
        IF Failed(r.c) THEN r.c ELSE [r.c EXCEPT !.pred = r.v])

\* the pairs of variables Constrain asserts equal; zip stops at the shorter side
RECURSIVE get_var_equality_assertions(_, _, _)
get_var_equality_assertions(c, lhs, rhs) ==
    LET RECURSIVE each(_, _, _, _)
        each(cc, ls, rs, acc) ==
            IF ls = <<>> \/ rs = <<>> \/ Failed(cc) THEN Ret(cc, acc)
            ELSE Bind(get_var_equality_assertions(cc, Head(ls), Head(rs)), LAMBDA r :
                     each(r.c, Tail(ls), Tail(rs), acc \o r.v))
        RECURSIVE reads(_, _, _)
        reads(cc, i, acc) ==
            IF i >= lhs[3] THEN Ret(cc, acc)
            ELSE Bind(read_from_memory(cc, lhs[2], add_constant(FE(i))), LAMBDA l :
                 Bind(read_from_memory(l.c, rhs[2], add_constant(FE(i))), LAMBDA r :
                     reads(r.c, i + 1, Append(acc, <<l.v, r.v>>))))
    IN IF IsVar(lhs) /\ IsVar(rhs) THEN Ret(c, << <<lhs[2], rhs[2]>> >>)
       ELSE IF IsArray(lhs) /\ IsArray(rhs) THEN each(c, lhs[2], rhs[2], <<>>)
       ELSE IF IsDynamicArray(lhs) /\ IsDynamicArray(rhs) THEN reads(c, 0, <<>>)
       ELSE Ret(Fail(c, "panic"), <<>>)

RECURSIVE assert_eq_vars(_, _)
assert_eq_vars(c, pairs) ==
    IF pairs = <<>> THEN c
    ELSE assert_eq_vars(push_opcode(c, MemOp("assert", 0, Head(pairs)[1], Head(pairs)[2],
                                             c.cur)),
                        Tail(pairs))

constrain(c, lhs_id, rhs_id) ==
    Bind(convert_value(c, lhs_id), LAMBDA lhs :
    Bind(convert_value(lhs.c, rhs_id), LAMBDA rhs :
    Bind(get_var_equality_assertions(rhs.c, lhs.v, rhs.v), LAMBDA eqs :
        IF Failed(eqs.c) THEN eqs.c ELSE assert_eq_vars(eqs.c, eqs.v))))

\* the variables of a slice given to a slice intrinsic, a dynamic array being
\* read back element by element
RECURSIVE slice_intrinsic_input(_, _, _)
slice_intrinsic_input(c, old_slice, input) ==
    LET RECURSIVE each(_, _, _)
        each(cc, acc, vs) ==
            IF vs = <<>> THEN Ret(cc, acc)
            ELSE Bind(slice_intrinsic_input(cc, acc, Head(vs)), LAMBDA r :
                     each(r.c, r.v, Tail(vs)))
    IN IF IsVar(input) THEN Ret(c, Append(old_slice, input))
       ELSE IF IsArray(input) THEN each(c, old_slice, input[2])
       ELSE Bind(read_all(c, input[2], 0, input[3], <<>>), LAMBDA r :
                Ret(r.c, old_slice \o [i \in 1..Len(r.v) |-> Var(r.v[i], TField)]))

\* AcirValue::into_var
into_var(c, value) ==
    IF IsVar(value) THEN Ret(c, value[2])
    ELSE Ret(FailWith(c, "InternalError", CallStackNew), Zero)

\* Intrinsic::SlicePushBack once the length of the slice is a variable
slice_push_back(slice_length, arguments) ==
    Bind(convert_value(slice_length.c, arguments[2]), LAMBDA slice :
    Bind(convert_value(slice.c, arguments[3]), LAMBDA element :
    Bind(add_var(element.c, slice_length.v, add_constant(FE(1))), LAMBDA new_slice_length :
    Bind(slice_intrinsic_input(new_slice_length.c, <<>>, slice.v), LAMBDA new_slice :
        Ret(new_slice.c,
            << Var(new_slice_length.v, TField),
               Array(Append(new_slice.v, element.v)) >>)))))

\* Intrinsic::SlicePushFront once the length of the slice is a variable
slice_push_front(slice_length, arguments) ==
    Bind(convert_value(slice_length.c, arguments[2]), LAMBDA slice :
    Bind(convert_value(slice.c, arguments[3]), LAMBDA element :
    Bind(add_var(element.c, slice_length.v, add_constant(FE(1))), LAMBDA new_slice_length :
    Bind(slice_intrinsic_input(new_slice_length.c, <<>>, slice.v), LAMBDA new_slice :
        Ret(new_slice.c,
            << Var(new_slice_length.v, TField),
               Array(<<element.v>> \o new_slice.v) >>)))))

\* the results of a pop from the back, the element handed back first
popped_back_element_first(c, new_slice_length, new_slice) ==
    IF new_slice = <<>> THEN Ret(Fail(c, "panic"), <<>>)
    ELSE Ret(c, << new_slice[Len(new_slice)],
                   Var(new_slice_length, TField),
                   Array(SubSeq(new_slice, 1, Len(new_slice) - 1)) >>)

\* lines 1797-1805: the last element is taken off; an empty slice panics
popped_back(c, new_slice_length, new_slice) ==
    IF new_slice = <<>> THEN Ret(Fail(c, "panic"), <<>>)
    ELSE Ret(c, << Var(new_slice_length, TField),
                   Array(SubSeq(new_slice, 1, Len(new_slice) - 1)),
                   new_slice[Len(new_slice)] >>)

\* lines 1817-1825: the first element is taken off; an empty slice panics
popped_front(c, new_slice_length, new_slice) ==
    IF new_slice = <<>> THEN Ret(Fail(c, "panic"), <<>>)
    ELSE Ret(c, << Head(new_slice),
                   Var(new_slice_length, TField),
                   Array(Tail(new_slice)) >>)

\* Intrinsic::SlicePopBack once the length of the slice is a variable
slice_pop_back(slice_length, arguments) ==
    Bind(convert_value(slice_length.c, arguments[2]), LAMBDA slice :
    Bind(sub_var(slice.c, slice_length.v, add_constant(FE(1))), LAMBDA new_slice_length :
    Bind(slice_intrinsic_input(new_slice_length.c, <<>>, slice.v), LAMBDA new_slice :
        popped_back(new_slice.c, new_slice_length.v, new_slice.v))))

\* Intrinsic::SlicePopFront once the length of the slice is a variable
slice_pop_front(slice_length, arguments) ==
    Bind(convert_value(slice_length.c, arguments[2]), LAMBDA slice :
    Bind(sub_var(slice.c, slice_length.v, add_constant(FE(1))), LAMBDA new_slice_length :
    Bind(slice_intrinsic_input(new_slice_length.c, <<>>, slice.v), LAMBDA new_slice :
        popped_front(new_slice.c, new_slice_length.v, new_slice.v))))

\* Intrinsic::ArrayLen: the number of entries of a static Array, the len of a
\* DynamicArray
array_len(c, arguments) ==
    Bind(convert_value(c, arguments[1]), LAMBDA array :
        IF IsArray(array.v)
        THEN Ret(array.c, << Var(add_constant(FE(Len(array.v[2]))), TField) >>)
        ELSE IF IsDynamicArray(array.v)
        THEN Ret(array.c, << Var(add_constant(FE(array.v[3])), TField) >>)
        ELSE Ret(Fail(array.c, "panic"), <<>>))

\* the slice intrinsics, which start by converting the length to a variable
slice_intrinsic(slice_length, intrinsic, arguments) ==
    IF Failed(slice_length.c) THEN Ret(slice_length.c, <<>>)
    ELSE IF intrinsic = "SlicePushBack" THEN slice_push_back(slice_length, arguments)
    ELSE IF intrinsic = "SlicePushFront" THEN slice_push_front(slice_length, arguments)
    ELSE IF intrinsic = "SlicePopBack" THEN slice_pop_back(slice_length, arguments)
    ELSE slice_pop_front(slice_length, arguments)

SliceIntrinsics == {"SlicePushBack", "SlicePushFront", "SlicePopBack", "SlicePopFront"}

\* the outputs of an intrinsic call, in the order the results are bound
convert_ssa_intrinsic_call(c, intrinsic, arguments) ==
    IF intrinsic \in SliceIntrinsics
    THEN Bind(convert_value(c, arguments[1]), LAMBDA l :
         Bind(into_var(l.c, l.v), LAMBDA slice_length :
             slice_intrinsic(slice_length, intrinsic, arguments)))
    ELSE IF intrinsic = "ArrayLen" THEN array_len(c, arguments)
    ELSE Ret(Fail(c, "panic"), <<>>)

\* lines 492-509: an array output is given a block and initialized
bind_intrinsic_output(c, result, output) ==
    IF IsArray(output)
    THEN Bind(block_id(c, result), LAMBDA b :
             initialize_array(b.c, b.v,
                              IF IsArrayType(type_of_value(c, result))
                              THEN flattened_size(type_of_value(c, result))
                              ELSE flattened_value_size(output),
                              output))
    ELSE IF IsDynamicArray(output) THEN Fail(c, "panic")
    ELSE c

\* lines 489-511: the results of an intrinsic call are bound, arrays initialized
RECURSIVE bind_intrinsic_results(_, _, _)
bind_intrinsic_results(c, result, outputs) ==
    IF outputs = <<>> \/ Failed(c) THEN c
    ELSE bind_intrinsic_results(
             cache_insert(bind_intrinsic_output(c, result, Head(outputs)), result,
                          Head(outputs)),
             result + 1, Tail(outputs))

\* a call of an intrinsic: ins.a is the intrinsic, ins.v its arguments, ins.r the
\* first of its consecutive result ids
call_intrinsic(c, ins) ==
    Bind(convert_ssa_intrinsic_call(c, ins.a, ins.v), LAMBDA outputs :
        IF Failed(outputs.c) THEN outputs.c
        ELSE bind_intrinsic_results(outputs.c, ins.r, outputs.v))

(***************************************************************************)
(* Calls of Brillig functions.  An artifact (brillig_ir::artifact) is held *)
(* by the function labels its byte code defines, the function labels its   *)
(* byte code calls, in call order, and the functions whose code it is made *)
(* of, in link order.  The catalog maps a function label to the artifact   *)
(* of the function.                                                        *)
(***************************************************************************)
BrilligArtifact(labels, calls, code) ==
    [labels |-> labels, unresolved_external_call_labels |-> calls, byte_code |-> code]

\* the artifact of a compiled function: it defines the function's label
function_artifact(label, calls) == BrilligArtifact({label}, calls, <<label>>)

\* BrilligContext::new_entry_point_artifact: code that calls the function
new_entry_point_artifact(label) == BrilligArtifact({}, <<label>>, <<>>)

Some(x) == <<"Some", x>>
IsNone(option) == option[1] = "None"

\* the first called label the artifact does not define
first_unresolved_function_call(artifact) ==
    LET calls == artifact.unresolved_external_call_labels
        open == {k \in 1..Len(calls) : calls[k] \notin artifact.labels}
    IN IF open = {} THEN None
       ELSE Some(calls[CHOOSE k \in open : \A j \in open : k <= j])

find_by_function_label(catalog, label) ==
    IF label \in DOMAIN catalog THEN Some(catalog[label]) ELSE None

\* BrilligArtifact::link_with: the code, the labels and the calls of obj are
\* appended
link_with(artifact, obj) ==
    BrilligArtifact(artifact.labels \cup obj.labels,
                    artifact.unresolved_external_call_labels
                        \o obj.unresolved_external_call_labels,
                    artifact.byte_code \o obj.byte_code)

\* BrilligArtifact::finish: the byte code, its calls resolved
entry_point_finish(artifact) == artifact

\* a loop left after the first definition is linked
link_dependencies_once(c, entry_point) ==
    LET unresolved_fn_label == first_unresolved_function_call(entry_point)
        artifact == find_by_function_label(c.brillig, unresolved_fn_label[2])
    IN IF IsNone(unresolved_fn_label) THEN Ret(c, entry_point)
       ELSE IF IsNone(artifact)
       THEN Ret(FailWith(c, "InternalError", CallStackNew), entry_point)
       ELSE Ret(c, link_with(entry_point, artifact[2]))

\* lines 565-577: the while loop of gen_brillig_for
RECURSIVE link_dependencies(_, _)
link_dependencies(c, entry_point) ==
    LET unresolved_fn_label == first_unresolved_function_call(entry_point)
        artifact == find_by_function_label(c.brillig, unresolved_fn_label[2])
    IN IF IsNone(unresolved_fn_label) THEN Ret(c, entry_point)
       ELSE IF IsNone(artifact)
       THEN Ret(FailWith(c, "InternalError", CallStackNew), entry_point)
       ELSE link_dependencies(c, link_with(entry_point, artifact[2]))

gen_brillig_for(c, func) ==
    Bind(link_dependencies(c, new_entry_point_artifact(func)), LAMBDA entry_point :
        IF Failed(entry_point.c) THEN entry_point
        ELSE Ret(entry_point.c, entry_point_finish(entry_point.v)))

\* AcirContext::brillig: a fresh variable for every scalar of an output
brillig_output(c, typ) ==
    IF IsArrayType(typ)
    THEN Ret([c EXCEPT !.next_var = @ + flattened_size(typ)],
             Array([i \in 1..flattened_size(typ) |-> Var(Wit(c.next_var + i - 1), TField)]))
    ELSE Ret([c EXCEPT !.next_var = @ + 1], Var(Wit(c.next_var), typ))

RECURSIVE brillig_outputs(_, _, _)
brillig_outputs(c, outputs, acc) ==
    IF outputs = <<>> THEN Ret(c, acc)
    ELSE Bind(brillig_output(c, Head(outputs)), LAMBDA r :
             brillig_outputs(r.c, Tail(outputs), Append(acc, r.v)))

\* AcirContext::brillig: the Brillig opcode and the values of its outputs
acir_brillig(c, predicate, code, inputs, outputs) ==
    Bind(brillig_outputs(c, outputs, <<>>), LAMBDA output_values :
        Ret(push_opcode(output_values.c,
                        [op |-> "brillig", predicate |-> predicate, code |-> code,
                         inputs |-> inputs, outputs |-> output_values.v, ins |-> c.cur]),
            output_values.v))

\* lines 469-477: the outputs are bound to the results, arrays initialized
RECURSIVE bind_brillig_results(_, _, _)
bind_brillig_results(c, result, output_values) ==
    IF output_values = <<>> \/ Failed(c) THEN c
    ELSE bind_brillig_results(
             cache_insert(
                 IF IsArray(Head(output_values))
                 THEN Bind(block_id(c, resolve(result)), LAMBDA b :
                          initialize_array(b.c, b.v,
                                           flattened_size(type_of_value(c, resolve(result))),
                                           Head(output_values)))
                 ELSE c,
                 result, Head(output_values)),
             result + 1, Tail(output_values))

RECURSIVE convert_values(_, _, _)
convert_values(c, ids, acc) ==
    IF ids = <<>> THEN Ret(c, acc)
    ELSE Bind(convert_value(c, Head(ids)), LAMBDA r :
             convert_values(r.c, Tail(ids), Append(acc, r.v)))

\* a call of a Brillig function: ins.a is the label of the function, ins.v its
\* arguments, ins.r the first of its consecutive result ids, ins.i their number
call_brillig(c, ins) ==
    Bind(convert_values(c, ins.v, <<>>), LAMBDA inputs :
    Bind(gen_brillig_for(inputs.c, ins.a), LAMBDA code :
        IF Failed(code.c) THEN code.c
        ELSE Bind(acir_brillig(code.c, code.c.pred, code.v, inputs.v,
                               [k \in 1..ins.i |-> type_of_value(c, ins.r + k - 1)]),
                  LAMBDA output_values :
                      IF Failed(output_values.c) THEN output_values.c
                      ELSE bind_brillig_results(output_values.c, ins.r, output_values.v))))

\* the functions of the program that run on the Brillig VM
FunctionLabels == {"f", "g", "h"}

\* lines 450-512: the callee is a Brillig function or an intrinsic
call(c, ins) ==
    IF ins.a \in FunctionLabels THEN call_brillig(c, ins) ELSE call_intrinsic(c, ins)

(***************************************************************************)
(* Binary and Truncate.  A Binary is held as ins.a = lhs, ins.i = operator, *)
(* ins.v = rhs; a Truncate as ins.a = value, ins.i = bit_size,              *)
(* ins.v = max_bit_size.                                                    *)
(***************************************************************************)
\* FieldElement::max_num_bits() of the BN254 scalar field
max_num_bits == 254
max_integer_bit_size == max_num_bits \div 2

type_of_binary_operation(c, lhs, rhs) ==
    LET lhs_type == type_of_value(c, lhs)
        rhs_type == type_of_value(c, rhs)
    IN IF ~IsNumeric(lhs_type) \/ ~IsNumeric(rhs_type)
       THEN Ret(Fail(c, "panic"), TField)
       ELSE IF lhs_type = TField THEN Ret(c, rhs_type)
       ELSE IF rhs_type = TField THEN Ret(c, lhs_type)
       ELSE IF lhs_type # rhs_type THEN Ret(Fail(c, "panic"), lhs_type)
       ELSE Ret(c, lhs_type)

\* lines 1510-1538, on the operators the constraint builder folds or records
binary_operator(c, operator, lhs, rhs) ==
    IF operator = "Add" THEN add_var(c, lhs, rhs)
    ELSE IF operator = "Sub" THEN sub_var(c, lhs, rhs)
    ELSE IF operator = "Mul" THEN mul_var(c, lhs, rhs)
    ELSE Ret(Fail(c, "panic"), Zero)

\* a check refusing the bound itself
checked_integer_size_at_bound(c, binary_type) ==
    IF IsInteger(binary_type) /\ binary_type[2] >= max_integer_bit_size
    THEN Fail(c, "UnsupportedIntegerSize")
    ELSE c

\* lines 1489-1505: an integer operation wider than half the field is refused
checked_integer_size(c, binary_type) ==
    IF IsInteger(binary_type) /\ binary_type[2] > max_integer_bit_size
    THEN Fail(c, "UnsupportedIntegerSize")
    ELSE c

convert_ssa_binary(c, binary) ==
    Bind(convert_numeric_value(c, binary.a), LAMBDA lhs :
        IF Failed(lhs.c) THEN lhs
        ELSE Bind(convert_numeric_value(lhs.c, binary.v), LAMBDA rhs :
            IF Failed(rhs.c) THEN rhs
            ELSE Bind(type_of_binary_operation(rhs.c, binary.a, binary.v), LAMBDA binary_type :
                Bind(checked_integer_size(binary_type.c, binary_type.v), LAMBDA checked :
                    IF Failed(checked) THEN Ret(checked, Zero)
                    ELSE binary_operator(checked, binary.i, lhs.v, rhs.v)))))

\* 2^bit_size as a FieldElement, for the bit sizes whose power one limb holds
Pow2(bit_size) ==
    IF bit_size < 64 THEN <<0, 2 ^ bit_size>> ELSE <<2 ^ (bit_size - 64), 0>>

\* 2_u128.pow(bit_size): past 127 bits the power overflows u128; the build with
\* overflow checks panics, the build without keeps the low 128 bits, which are 0
pow_u128(c, bit_size) ==
    IF bit_size < 128 THEN Ret(c, Pow2(bit_size))
    ELSE IF c.overflow_checks THEN Ret(Fail(c, "panic"), FE(0))
    ELSE Ret(c, FE(0))

\* AcirContext::truncate_var: a fresh variable constrained to var mod 2^bit_size
truncate_var(c, var, bit_size, max_bit_size) ==
    add_data(c, "truncate", var, <<bit_size, max_bit_size>>)

\* lines 1630-1650: the integer modulus is added to the result of a subtraction
truncate_operand(c, value_id, var, bit_size) ==
    LET value == c.dfg[value_id]
    IN IF value[1] = "inst"
       THEN IF c.instructions[value[2]].op = "Binary"
               /\ c.instructions[value[2]].i = "Sub"
            THEN Bind(pow_u128(c, bit_size), LAMBDA power :
                     IF Failed(power.c) THEN Ret(power.c, var)
                     ELSE add_var(power.c, var, add_constant(power.v)))
            ELSE Ret(c, var)
       ELSE IF value[1] = "param" THEN Ret(c, var)
       ELSE Ret(Fail(c, "panic"), var)

convert_ssa_truncate(c, value_id, bit_size, max_bit_size) ==
    Bind(convert_numeric_value(c, value_id), LAMBDA var :
        IF Failed(var.c) THEN var
        ELSE Bind(truncate_operand(var.c, value_id, var.v, bit_size), LAMBDA operand :
            IF Failed(operand.c) THEN operand
            ELSE truncate_var(operand.c, operand.v, bit_size, max_bit_size)))

\* lines 383-386 and 527-531: the result of the handler is bound to the
\* instruction's result
bind_result_var(r, result_id) ==
    IF Failed(r.c) THEN r.c ELSE define_result_var(r.c, result_id, r.v)

set_call_stack(c, call_stack) == [c EXCEPT !.call_stack = call_stack]

\* the match of convert_ssa_instruction on the instruction
instruction_arm(c, instruction, ins) ==
    IF ins.op = "EnableSideEffects" THEN enable_side_effects(c, ins.a)
    ELSE IF ins.op \in {"ArrayGet", "ArraySet"} THEN handle_array_operation(c, instruction, ins)
    ELSE IF ins.op = "Constrain" THEN constrain(c, ins.a, ins.v)
    ELSE IF ins.op = "Call" THEN call(c, ins)
    ELSE IF ins.op = "Binary" THEN bind_result_var(convert_ssa_binary(c, ins), ins.r)
    ELSE IF ins.op = "Truncate"
    THEN bind_result_var(convert_ssa_truncate(c, ins.a, ins.i, ins.v), ins.r)
    ELSE Fail(c, "panic")

\* the call stack of the instruction is set before the match and cleared after
\* it; a `?` inside the match returns before the call stack is cleared
convert_ssa_instruction(c, instruction, ins) ==
    Bind(instruction_arm(set_call_stack(c, get_call_stack(instruction)),
                         instruction, ins), LAMBDA done :
        IF Failed(done) THEN done ELSE set_call_stack(done, CallStackNew))

(***************************************************************************)
(* The state machine: into_acir / convert_acir_main.                       *)
(***************************************************************************)
NoError == [kind |-> "none", index |-> 0, array_size |-> 0, call_stack |-> CallStackNew]
Empty == <<>>

Snapshot(path, ins) ==
    [ ins |-> ins,
      path |-> path,
      opcodes |-> opcodes,
      max_block_id |-> max_block_id,
      initialized_arrays |-> initialized_arrays,
      memory_blocks |-> memory_blocks,
      ssa_values |-> ssa_values,
      pred |-> current_side_effects_enabled_var ]

StaticArrays == {Id.pA, Id.lL, Id.pN, Id.lS, Id.lV}

InitContext ==
    /\ dfg = StaticDfg
    /\ instructions = <<>>
    /\ last_array_uses = Empty
    /\ pc = "params"
    /\ lowered = <<>>
    /\ ssa_values = Empty
    /\ current_side_effects_enabled_var = add_constant(FE(1))
    /\ initialized_arrays = {}
    /\ memory_blocks = Empty
    /\ internal_memory_blocks = Empty
    /\ internal_mem_block_lengths = Empty
    /\ max_block_id = 0
    /\ slice_sizes = Empty
    /\ opcodes = <<>>
    /\ next_var = 1
    /\ acir_vars = Empty
    /\ return_witnesses = <<>>
    /\ generated_acir = <<>>
    /\ error = NoError
    /\ trace = Snapshot("none", 0)

\* main calls no Brillig function
NoBrillig == [label \in {} |-> <<>>]

\* the programs of these specifications call no Brillig function and lower no
\* instruction whose constants can overflow, so one catalog and one build stand
\* for all
InitBuild == brillig = NoBrillig /\ overflow_checks = TRUE

Init == InitContext /\ static_arrays = StaticArrays /\ InitBuild

\* the whole of into_acir, on the programs over the array parameter
InitMain == InitContext /\ static_arrays = {Id.pA} /\ InitBuild

\* the context fields a handler leaves behind
CommitFields(c) ==
    /\ ssa_values' = c.ssa_values
    /\ current_side_effects_enabled_var' = c.pred
    /\ initialized_arrays' = c.initialized_arrays
    /\ memory_blocks' = c.memory_blocks
    /\ internal_memory_blocks' = c.internal_memory_blocks
    /\ internal_mem_block_lengths' = c.internal_mem_block_lengths
    /\ max_block_id' = c.max_block_id
    /\ slice_sizes' = c.slice_sizes
    /\ opcodes' = c.opcodes
    /\ next_var' = c.next_var
    /\ acir_vars' = c.acir_vars
    /\ error' = IF Failed(c)
                THEN [kind |-> c.err, index |-> c.err_index, array_size |-> c.err_array_size,
                      call_stack |-> c.err_call_stack]
                ELSE NoError

\* a handler whose Err is dropped instead of returned with `?`
CommitDroppingErr(c, next_pc) == CommitFields(c) /\ pc' = next_pc

\* the fields of the context after a handler become the new state; the `?`
\* after each handler of convert_acir_main returns its Err
Commit(c, next_pc) ==
    /\ CommitFields(c)
    /\ pc' = IF Failed(c) THEN "error" ELSE next_pc

BindParams ==
    /\ pc = "params"
    /\ Commit(convert_ssa_block_params(Ctx(0, dfg, last_array_uses), Params), "instr")
    /\ trace' = Snapshot("params", 0)
    /\ UNCHANGED << dfg, instructions, last_array_uses, static_arrays, brillig, overflow_checks,
                    lowered, return_witnesses,
                    generated_acir >>

\* a loop handing out the instruction before the next one
PreviousInstructionId == Len(lowered)

\* the for loop of convert_acir_main hands out the InstructionIds in block order
NextInstructionId == Len(lowered) + 1

\* lowers the instruction ins, the next one of the entry block, whose results
\* have the types typs; lau is the liveness hint including this instruction (the
\* hint is enumerated for the instructions that consult it, those that reach
\* the dynamic path)
Lower(ins, typs, lau) ==
    LET instruction == NextInstructionId
        d == dfg \o [k \in 1..Len(typs) |-> VInst(instruction, typs[k])]
        c == convert_ssa_instruction(Ctx(instruction, d, lau), instruction, ins)
    IN /\ lau # last_array_uses => c.path = "dynamic"
       /\ dfg' = d
       /\ instructions' = Append(instructions, ins)
       /\ last_array_uses' = lau
       /\ lowered' = Append(lowered, instruction)
       /\ Commit(c, "instr")
       /\ trace' = Snapshot(c.path, instruction)
       /\ UNCHANGED << static_arrays, brillig, overflow_checks, return_witnesses,
                       generated_acir >>

CanLower == pc = "instr" /\ Len(instructions) < MaxInstr

Conditions == {Id.c0, Id.c1, Id.pb}

LowerEnableSideEffects ==
    /\ CanLower
    /\ \E cond \in Conditions :
           Lower(Instr("EnableSideEffects", cond, 0, 0, 0), <<>>, last_array_uses)

IsAggregate(id) == IsArrayType(dfg[id][Len(dfg[id])]) \/ IsSliceType(dfg[id][Len(dfg[id])])

\* the static arrays one program works on
Families == {{Id.pA, Id.pN}, {Id.lL}, {Id.lS}, {Id.lV}}

\* arrays an instruction may name: a program works on one family of the static
\* arrays and on the results derived from it, and never uses an array after the
\* instruction last_array_uses maps it to
ArrayOperands ==
    LET used == {id \in static_arrays :
                     \E k \in 1..Len(instructions) :
                         instructions[k].op \in {"ArrayGet", "ArraySet"}
                         /\ instructions[k].a = id}
        family == IF used = {} THEN static_arrays
                  ELSE static_arrays \cap UNION {F \in Families : F \cap used # {}}
        results == {id \in (Len(StaticDfg) + 1)..Len(dfg) : IsAggregate(id)}
    IN (family \cup results) \ DOMAIN last_array_uses

Indices == {Id.c1, Id.c2, Id.cBig, Id.px}

\* the indices enumerated for array a: handle_constant_index looks at a constant
\* index only when a is array-typed and held as a static Array, so the constants
\* out of bounds are enumerated for those arrays
IndicesFor(a) ==
    IF IsSliceType(dfg[a][Len(dfg[a])])
       \/ (a \in DOMAIN ssa_values /\ IsDynamicArray(ssa_values[a]))
    THEN {Id.c1, Id.px}
    ELSE Indices

\* the indices enumerated for an ArraySet on array a: the constant past the end
\* differs from the number of elements
StoreIndicesFor(a) ==
    IF Id.c2 \in IndicesFor(a) THEN {Id.c1, Id.c3, Id.px} ELSE IndicesFor(a)

TypeOf(id) == dfg[id][Len(dfg[id])]

\* the element types an access at index i of array a may have: the index of an
\* SSA array access counts element fields, so a constant index names its field
ElementChoices(a, i) ==
    LET elems == TypeOf(a)[2]
        k == Len(elems)
        fe == dfg[i][2]
    IN IF dfg[i][1] = "const" THEN {(fe[2] % k) + 1} ELSE 1..k

LowerArrayGet ==
    /\ CanLower
    /\ \E a \in ArrayOperands :
       \E i \in IndicesFor(a) :
         \E e \in ElementChoices(a, i) :
           Lower(Instr("ArrayGet", a, i, 0, Len(dfg) + 1), <<TypeOf(a)[2][e]>>,
                 last_array_uses)

\* values of type t that may be stored
StoreValues(t) ==
    IF IsNumeric(t) THEN {Id.px}
    ELSE {id \in ({Id.pA, Id.lS} \cup ((Len(StaticDfg) + 1)..Len(dfg))) \ DOMAIN last_array_uses :
              TypeOf(id) = t}

LowerArraySet ==
    /\ CanLower
    /\ \E a \in ArrayOperands, last_use \in BOOLEAN :
       \E i \in StoreIndicesFor(a) :
         \E e \in ElementChoices(a, i) :
           \E v \in StoreValues(TypeOf(a)[2][e]) \ {a} :
             Lower(Instr("ArraySet", a, i, v, Len(dfg) + 1), <<TypeOf(a)>>,
                   IF last_use THEN (a :> NextInstructionId) @@ last_array_uses
                   ELSE last_array_uses)

\* Constrain on two scalars, or on two arrays of one type
ConstrainOperands ==
    {<<Id.px, Id.c1>>}
    \cup {p \in ArrayOperands \X ArrayOperands : p[1] < p[2] /\ TypeOf(p[1]) = TypeOf(p[2])}

LowerConstrain ==
    /\ CanLower
    /\ \E p \in ConstrainOperands :
           Lower(Instr("Constrain", p[1], 0, p[2], 0), <<>>, last_array_uses)

\* slice_push_back(len, slice, element), returning (new_len, new_slice)
LowerCall ==
    /\ CanLower
    /\ \E s \in {a \in ArrayOperands : IsSliceType(TypeOf(a))} :
           Lower(Instr("Call", "SlicePushBack", 0,
                       <<Id.c2, s, IF IsNumeric(TypeOf(s)[2][1]) THEN Id.px ELSE Id.lS>>,
                       Len(dfg) + 1),
                 <<TField, TypeOf(s)>>, last_array_uses)

\* array_len of an array or slice, static or produced by an ArraySet
LowerArrayLen ==
    /\ CanLower
    /\ \E a \in ArrayOperands :
           Lower(Instr("Call", "ArrayLen", 0, <<a>>, Len(dfg) + 1), <<TField>>,
                 last_array_uses)

\* the lengths a slice intrinsic is called with: a constant and a witness
SliceLengths == {Id.c2, Id.px}

\* the arguments of a slice intrinsic on slice s: a push names the element
IntrinsicArguments(intrinsic, len, s) ==
    IF intrinsic \in {"SlicePushBack", "SlicePushFront"}
    THEN <<len, s, IF IsNumeric(TypeOf(s)[2][1]) THEN Id.px ELSE Id.lS>>
    ELSE <<len, s>>

\* the types of the results of a slice intrinsic on slice s, in SSA order
IntrinsicResultTypes(intrinsic, s) ==
    IF intrinsic \in {"SlicePushBack", "SlicePushFront"} THEN <<TField, TypeOf(s)>>
    ELSE IF intrinsic = "SlicePopBack" THEN <<TField, TypeOf(s), TypeOf(s)[2][1]>>
    ELSE <<TypeOf(s)[2][1], TField, TypeOf(s)>>

\* a push or a pop on a slice literal or on a slice an instruction produced
LowerSliceIntrinsic ==
    /\ CanLower
    /\ \E intrinsic \in SliceIntrinsics, len \in SliceLengths :
       \E s \in {a \in ArrayOperands : IsSliceType(TypeOf(a))} :
           Lower(Instr("Call", intrinsic, 0, IntrinsicArguments(intrinsic, len, s),
                       Len(dfg) + 1),
                 IntrinsicResultTypes(intrinsic, s), last_array_uses)

\* convert_ssa_return: the return values are flattened and marked
ReturnValues == {<<Id.px>>, <<Id.px, Id.px>>, <<Id.pA, Id.px>>}

ConvertReturn ==
    /\ pc = "instr"
    /\ \E return_values \in ReturnValues :
         LET c == Ctx(0, dfg, last_array_uses)
             vals == [k \in 1..Len(return_values) |-> convert_value(c, return_values[k]).v]
         IN /\ return_witnesses' = Concat([k \in 1..Len(vals) |->
                                              [j \in 1..Len(flatten(vals[k])) |->
                                                  flatten(vals[k])[j][2]]])
            /\ pc' = "finish"
    /\ trace' = Snapshot("return", 0)
    /\ UNCHANGED << dfg, instructions, last_array_uses, static_arrays, brillig, overflow_checks,
                    lowered, ssa_values,
                    current_side_effects_enabled_var, initialized_arrays, memory_blocks,
                    internal_memory_blocks, internal_mem_block_lengths, max_block_id,
                    slice_sizes, opcodes, next_var, acir_vars, generated_acir, error >>

\* AcirContext::finish: the GeneratedAcir of the pass
finish ==
    [ opcodes |-> opcodes,
      return_witnesses |-> return_witnesses,
      current_witness_index |-> next_var - 1 ]

\* a return witness handed back as it is
reuse_witness(acir, return_witness) == Ret(acir, return_witness)

\* GeneratedAcir::create_witness_for_expression: a fresh witness constrained to
\* equal the expression
create_witness_for_expression(acir, return_witness) ==
    Ret([acir EXCEPT !.current_witness_index = @ + 1,
                     !.opcodes = Append(@, MemOp("assert", 0, Wit(acir.current_witness_index + 1),
                                                 return_witness, 0))],
        Wit(acir.current_witness_index + 1))

\* the Distinct arm of into_acir: one witness is created for each return witness
RECURSIVE distinct_return_witness(_, _, _)
distinct_return_witness(acir, witnesses, acc) ==
    IF witnesses = <<>> THEN [acir EXCEPT !.return_witnesses = acc]
    ELSE Bind(create_witness_for_expression(acir, Head(witnesses)), LAMBDA r :
             distinct_return_witness(r.c, Tail(witnesses), Append(acc, r.v)))

Distinctness == {"Distinct", "DuplicationAllowed"}

\* the end of into_acir: the GeneratedAcir is handed back, with distinct return
\* witnesses when abi_distinctness asks for them
Finish ==
    /\ pc = "finish"
    /\ \E abi_distinctness \in Distinctness :
           /\ generated_acir' =
                  << IF abi_distinctness = "Distinct"
                     THEN distinct_return_witness(finish, return_witnesses, <<>>)
                     ELSE finish >>
           /\ trace' = Snapshot(abi_distinctness, 0)
    /\ pc' = "done"
    /\ UNCHANGED << dfg, instructions, last_array_uses, static_arrays, brillig, overflow_checks,
                    lowered, ssa_values,
                    current_side_effects_enabled_var, initialized_arrays, memory_blocks,
                    internal_memory_blocks, internal_mem_block_lengths, max_block_id,
                    slice_sizes, opcodes, next_var, acir_vars, return_witnesses, error >>

\* convert_ssa_block_params and the loop over the entry block's instructions
Next ==
    \/ BindParams
    \/ LowerEnableSideEffects
    \/ LowerArrayGet
    \/ LowerArraySet
    \/ LowerConstrain
    \/ LowerCall

Spec == Init /\ [][Next]_vars

\* the same, followed by the return terminator and acir_context.finish
NextMain ==
    \/ BindParams
    \/ LowerEnableSideEffects
    \/ LowerArrayGet
    \/ LowerArraySet
    \/ LowerConstrain
    \/ ConvertReturn
    \/ Finish

SpecMain == InitMain /\ [][NextMain]_vars

\* the programs of intrinsic calls on arrays and slices, static or produced by
\* an ArraySet
NextCalls ==
    \/ BindParams
    \/ LowerArraySet
    \/ LowerArrayLen
    \/ LowerSliceIntrinsic

SpecCalls == Init /\ [][NextCalls]_vars

(***************************************************************************)
(* The scalar instructions: Binary and Truncate, on either build.          *)
(***************************************************************************)
Operators == {"Add", "Sub", "Mul"}

NumericResults == {id \in (Len(StaticDfg) + 1)..Len(dfg) : IsNumeric(TypeOf(id))}

\* the operand pairs of a Binary: both of one type, or one of them a Field
BinaryOperands ==
    { <<Id.px, Id.px>>, <<Id.px, Id.c1>>, <<Id.pb, Id.pb>>, <<Id.cU8, Id.px>>,
      <<Id.cU127, Id.px>>, <<Id.px, Id.cU128>>, <<Id.cU128, Id.cU128>>,
      <<Id.cI127, Id.px>>, <<Id.cI128, Id.px>> }
    \cup {<<r, Id.px>> : r \in NumericResults}

\* the result of a Binary that is no comparison has the type of its lhs
LowerBinary ==
    /\ CanLower
    /\ \E operator \in Operators, operands \in BinaryOperands :
           Lower(Instr("Binary", operands[1], operator, operands[2], Len(dfg) + 1),
                 <<TypeOf(operands[1])>>, last_array_uses)

\* bit sizes below, within and past the 128 bits of the power's integer type
BitSizes == {8, 64, 128}

LowerTruncate ==
    /\ CanLower
    /\ \E value \in {Id.px, Id.pb} \cup NumericResults, bit_size \in BitSizes :
           Lower(Instr("Truncate", value, bit_size, max_num_bits, Len(dfg) + 1),
                 <<TypeOf(value)>>, last_array_uses)

InitScalars ==
    /\ InitContext /\ static_arrays = StaticArrays
    /\ brillig = NoBrillig /\ overflow_checks \in BOOLEAN

NextScalars ==
    \/ BindParams
    \/ LowerBinary
    \/ LowerTruncate

SpecScalars == InitScalars /\ [][NextScalars]_vars

(***************************************************************************)
(* Calls of Brillig functions, over the catalogs of three functions.       *)
(***************************************************************************)
\* the calls in the code of one function
CallLists == {<<>>, <<"f">>, <<"g">>, <<"h">>, <<"g", "h">>, <<"h", "f">>}

\* the catalogs: some of the functions compiled, each with its calls
Catalogs ==
    UNION {{[label \in D |-> function_artifact(label, calls[label])] : calls \in [D -> CallLists]}
           : D \in SUBSET FunctionLabels}

BrilligResultTypes == {<<TField>>, <<TPair>>}

LowerBrilligCall ==
    /\ CanLower
    /\ \E func \in FunctionLabels, typs \in BrilligResultTypes :
           Lower(Instr("Call", func, Len(typs), <<Id.px>>, Len(dfg) + 1),
                 typs, last_array_uses)

\* no instruction of these programs computes a constant that can overflow
InitBrillig ==
    /\ InitContext /\ static_arrays = StaticArrays
    /\ brillig \in Catalogs /\ overflow_checks = TRUE

NextBrillig ==
    \/ BindParams
    \/ LowerBrilligCall

SpecBrillig == InitBrillig /\ [][NextBrillig]_vars

(***************************************************************************)
(* Properties of the output and of the context.                            *)
(***************************************************************************)
IsMemoryAccess(o) == o.op \in {"read", "write"}
IsInit(o) == o.op = "init"

\* the instruction the last step lowered (0 when the last step was not the
\* lowering of an instruction) and what it emitted
LastInstruction == IF trace.ins >= 1 THEN instructions[trace.ins] ELSE Instr("none", 0, 0, 0, 0)
Emitted == SubSeq(opcodes, Len(trace.opcodes) + 1, Len(opcodes))

\* C1: every memory read or write in the output targets a block that is in
\* initialized_arrays and whose memory-init was emitted earlier in the output.
InitializedBeforeUse ==
    \A k \in 1..Len(opcodes) :
        IsMemoryAccess(opcodes[k]) =>
            /\ opcodes[k].block \in initialized_arrays
            /\ \E j \in 1..(k - 1) : IsInit(opcodes[j]) /\ opcodes[j].block = opcodes[k].block

\* the block of an array initialized while an instruction was lowered, then
\* read, and a write emitted by a later instruction
ReadAndWrittenAfterOnDemandInit ==
    /\ error.kind = "none"
    /\ \E j, k, m \in 1..Len(opcodes) :
           /\ IsInit(opcodes[j]) /\ opcodes[j].ins >= 1
           /\ \E a \in DOMAIN memory_blocks : memory_blocks[a] = opcodes[j].block
           /\ opcodes[k].op = "read" /\ opcodes[k].block = opcodes[j].block
           /\ opcodes[m].op = "write" /\ opcodes[m].ins > opcodes[j].ins

CacheOnlyGrows ==
    \A id \in DOMAIN trace.ssa_values :
        id \in DOMAIN ssa_values /\ ssa_values[id] = trace.ssa_values[id]

\* an instruction that cached its result and a constant or array literal it
\* converted, next to entries cached before it
CacheGainedEntries ==
    /\ trace.ins >= 2 /\ error.kind = "none"
    /\ LastInstruction.r \in DOMAIN ssa_values \ DOMAIN trace.ssa_values
    /\ \E id \in 1..Len(StaticDfg) : id \in DOMAIN ssa_values \ DOMAIN trace.ssa_values
    /\ \E id \in (Len(StaticDfg) + 1)..Len(dfg) : id \in DOMAIN trace.ssa_values

LoweredOnceInOrder ==
    /\ Len(lowered) = Len(instructions)
    /\ \A k \in 1..Len(lowered) : lowered[k] = k
    /\ Len(trace.opcodes) <= Len(opcodes)
    /\ SubSeq(opcodes, 1, Len(trace.opcodes)) = trace.opcodes
    /\ \A k \in 1..Len(Emitted) : Emitted[k].ins = trace.ins
    /\ \A k \in 1..(Len(opcodes) - 1) : opcodes[k].ins <= opcodes[k + 1].ins

\* three instructions lowered, the last two of which emitted opcodes
ThreeLoweredInOrder ==
    /\ Len(lowered) = 3
    /\ \E j, k \in 1..Len(opcodes) : opcodes[j].ins = 2 /\ opcodes[k].ins = 3

\* the variable of a condition: its constant, or the variable cached for it
ConditionVar(id) == IF dfg[id][1] = "const" THEN Const(dfg[id][2]) ELSE ssa_values[id][2]

\* C6: the side-effects predicate is the variable of the condition of the
\* latest EnableSideEffects lowered, or the constant 1 when there is none.
PredicateIsLatestCondition ==
    LET ese == {k \in 1..Len(instructions) : instructions[k].op = "EnableSideEffects"}
        latest == CHOOSE k \in ese : \A m \in ese : m <= k
    IN current_side_effects_enabled_var =
           IF ese = {} THEN One ELSE ConditionVar(instructions[latest].a)

\* two EnableSideEffects with different conditions, the second followed by
\* another instruction
PredicateReplaced ==
    \E j, k \in 1..Len(instructions) :
        /\ j < k /\ k < Len(instructions)
        /\ instructions[j].op = "EnableSideEffects"
        /\ instructions[k].op = "EnableSideEffects"
        /\ instructions[j].a = Id.pb /\ instructions[k].a = Id.c0
        /\ error.kind = "none"

\* the last step lowered an ArrayGet or ArraySet whose index is a constant and
\* whose array is array-typed and held as a static Array
ConstantIndexOnStaticArray ==
    /\ trace.ins >= 1 /\ trace.ins = Len(instructions)
    /\ LastInstruction.op \in {"ArrayGet", "ArraySet"}
    /\ dfg[LastInstruction.i][1] = "const"
    /\ IsArrayType(TypeOf(LastInstruction.a))
    /\ LastInstruction.a \in DOMAIN ssa_values
    /\ IsArray(ssa_values[LastInstruction.a])

\* the constant index, as a field element, and the number of elements of the
\* static Array (array.len())
IndexConstant == dfg[LastInstruction.i][2]
StaticLength == Len(ssa_values[LastInstruction.a][2])
IndexOutOfRange == IndexConstant[1] > 0 \/ IndexConstant[2] >= StaticLength

\* C7 as stated: with the predicate the constant 1, a constant index at or
\* beyond the length of a static Array fails with IndexOutOfBounds and caches
\* no result.
OutOfRangeIndexIsIndexOutOfBounds ==
    (ConstantIndexOnStaticArray /\ trace.pred = One /\ IndexOutOfRange) =>
        /\ pc = "error" /\ error.kind = "IndexOutOfBounds"
        /\ LastInstruction.r \notin DOMAIN ssa_values

\* C7: with the predicate the constant 1, a constant index that fits in 64
\* bits and is at or beyond the number of elements of a static Array fails
\* with IndexOutOfBounds carrying that index and that number of elements, and
\* no result is cached.
OutOfRangeU64IndexIsIndexOutOfBounds ==
    (/\ ConstantIndexOnStaticArray /\ trace.pred = One
     /\ fits_u64(IndexConstant) /\ IndexConstant[2] >= StaticLength) =>
        /\ pc = "error"
        /\ error.kind = "IndexOutOfBounds"
        /\ error.index = IndexConstant[2] /\ error.array_size = StaticLength
        /\ LastInstruction.r \notin DOMAIN ssa_values

\* an ArraySet past the end of a static Array, lowered with side effects on
\* after an EnableSideEffects(1)
StaticOutOfBoundsSet ==
    /\ ConstantIndexOnStaticArray /\ trace.pred = One
    /\ fits_u64(IndexConstant) /\ IndexConstant[2] >= StaticLength
    /\ LastInstruction.op = "ArraySet" /\ Len(instructions) >= 2

\* C8 as stated: with a predicate that is not the constant 1, a constant index
\* out of the bounds of a static Array never gives IndexOutOfBounds: the
\* operation is handled on the dynamic path.
PredicatedOutOfRangeFallsThrough ==
    (ConstantIndexOnStaticArray /\ trace.pred # One /\ IndexOutOfRange) =>
        /\ error.kind # "IndexOutOfBounds"
        /\ trace.path = "dynamic"
        /\ error.kind = "none" => \E k \in 1..Len(Emitted) : IsMemoryAccess(Emitted[k])

\* C9: on the fast path with the predicate the constant 1 and a constant index
\* within a static Array, the step succeeds, emits nothing, allocates no block
\* and initializes none; ArrayGet caches element i of the Array, ArraySet the
\* Array with element i replaced by the stored value.
FastPathIsStructural ==
    (/\ ConstantIndexOnStaticArray /\ trace.pred = One
     /\ fits_u64(IndexConstant) /\ IndexConstant[2] < StaticLength) =>
        LET elems == ssa_values[LastInstruction.a][2]
            i == IndexConstant[2] + 1
            result == ssa_values[LastInstruction.r]
        IN /\ error.kind = "none"
           /\ Emitted = <<>>
           /\ max_block_id = trace.max_block_id
           /\ memory_blocks = trace.memory_blocks
           /\ initialized_arrays = trace.initialized_arrays
           /\ LastInstruction.op = "ArrayGet" => result = elems[i]
           /\ LastInstruction.op = "ArraySet" =>
                  /\ IsArray(result) /\ Len(result[2]) = Len(elems)
                  /\ result[2][i] = ssa_values[LastInstruction.v]
                  /\ \A k \in 1..Len(elems) : k # i => result[2][k] = elems[k]

\* a fast-path ArraySet on a static Array followed by a fast-path ArrayGet of
\* the element it replaced
FastPathSetThenGet ==
    /\ ConstantIndexOnStaticArray /\ trace.pred = One /\ error.kind = "none"
    /\ LastInstruction.op = "ArrayGet" /\ IndexConstant[2] < StaticLength
    /\ \E k \in 1..(Len(instructions) - 1) :
           /\ instructions[k].op = "ArraySet" /\ instructions[k].r = LastInstruction.a
           /\ instructions[k].i = LastInstruction.i

\* the last step lowered an ArraySet on the dynamic path: its result is a
\* DynamicArray
DynamicArraySet ==
    /\ trace.ins >= 1 /\ trace.ins = Len(instructions)
    /\ LastInstruction.op = "ArraySet" /\ error.kind = "none"
    /\ IsDynamicArray(ssa_values[LastInstruction.r])

SourceBlock == memory_blocks[LastInstruction.a]
ResultBlock == ssa_values[LastInstruction.r][2]
FlatLen == ssa_values[LastInstruction.r][3]
IsLastUse ==
    /\ LastInstruction.a \in DOMAIN last_array_uses
    /\ last_array_uses[LastInstruction.a] = trace.ins
TableBlocks == {internal_memory_blocks[id] : id \in DOMAIN internal_memory_blocks}
IsReadOf(o, block) == o.op = "read" /\ o.block = block
IsWriteTo(o, block) == o.op = "write" /\ o.block = block

\* the position in Emitted of the first write to the result's block
FirstWrite ==
    CHOOSE w \in 1..Len(Emitted) :
        /\ IsWriteTo(Emitted[w], ResultBlock)
        /\ \A k \in 1..(w - 1) : ~IsWriteTo(Emitted[k], ResultBlock)

\* the step wrote to the result's block and to no other block
WritesOnlyResultBlock ==
    /\ \E w \in 1..Len(Emitted) : IsWriteTo(Emitted[w], ResultBlock)
    /\ \A k \in 1..Len(Emitted) : Emitted[k].op = "write" => Emitted[k].block = ResultBlock

\* the result is bound to the block of the input and no block was allocated or
\* initialized for it: the inits of the step are those of the input itself
\* and of element-type-size tables
BoundToSourceBlock ==
    /\ ResultBlock = SourceBlock
    /\ memory_blocks[LastInstruction.r] = SourceBlock
    /\ \A k \in 1..Len(Emitted) :
           IsInit(Emitted[k]) => Emitted[k].block \in TableBlocks \cup {SourceBlock}

\* the result has a block of its own, initialized before the first write with
\* what FlatLen reads of the input's block at 0 .. FlatLen-1 returned
CopiedToFreshBlock ==
    /\ memory_blocks[LastInstruction.r] = ResultBlock
    /\ ResultBlock >= trace.max_block_id
    /\ ResultBlock # SourceBlock
    /\ \E p \in 1..(FirstWrite - 1) :
           /\ IsInit(Emitted[p]) /\ Emitted[p].block = ResultBlock
           /\ Emitted[p].index = FlatLen /\ Len(Emitted[p].value) = FlatLen
           /\ p > FlatLen
           /\ \A i \in 1..FlatLen :
                  /\ IsReadOf(Emitted[p - FlatLen + i - 1], SourceBlock)
                  /\ Emitted[p - FlatLen + i - 1].index = Const(FE(i - 1))
                  /\ Emitted[p - FlatLen + i - 1].value = Emitted[p].value[i]

\* C10 as stated: a dynamic ArraySet at the last use of its input is bound to
\* the input's block with no read of the input's block before the write;
\* otherwise the input is copied into a fresh block, which is then written.
LastUseSetReadsNothingBeforeWrite ==
    DynamicArraySet =>
        /\ WritesOnlyResultBlock
        /\ IF IsLastUse
           THEN /\ BoundToSourceBlock
                /\ \A k \in 1..(FirstWrite - 1) : ~IsReadOf(Emitted[k], SourceBlock)
           ELSE CopiedToFreshBlock

\* C10: a dynamic ArraySet at the last use of its input is bound to the
\* input's block and does not copy it: before the write the input's block is
\* read only for the dummy value, when the predicate is not the constant 1,
\* once per flattened element of the stored value, and nothing read from it
\* initializes a block.  Otherwise the input is copied into a fresh block
\* with FlatLen reads, and the fresh block is then written.
LastUseSetDoesNotCopy ==
    DynamicArraySet =>
        /\ WritesOnlyResultBlock
        /\ IF IsLastUse
           THEN LET reads == {k \in 1..(FirstWrite - 1) : IsReadOf(Emitted[k], SourceBlock)}
                IN /\ BoundToSourceBlock
                   /\ Cardinality(reads) =
                          IF trace.pred = One THEN 0
                          ELSE flattened_value_size(ssa_values[LastInstruction.v])
                   /\ \A k \in reads : \A p \in 1..Len(Emitted) :
                          IsInit(Emitted[p]) =>
                              \A i \in 1..Len(Emitted[p].value) :
                                  Emitted[p].value[i] # Emitted[k].value
           ELSE CopiedToFreshBlock

\* a predicated dynamic ArraySet at the last use of its input, after a dynamic
\* ArraySet that copied its input
CopiedThenSetInPlace ==
    /\ DynamicArraySet /\ IsLastUse /\ trace.pred # One
    /\ \E k \in 1..(Len(instructions) - 1) :
           /\ instructions[k].op = "ArraySet"
           /\ instructions[k].a \notin DOMAIN last_array_uses
           /\ IsDynamicArray(ssa_values[instructions[k].r])

\* the value of a variable when witness n holds ValueOf(n, k), in the integers
\* modulo 101: constants by their limbs (2^64 = 79 mod 101), computed
\* variables by their data
ValueOf(n, k) == (k * n * n + 3 * n + k) % 101
Valuations == 1..3
RECURSIVE Eval(_, _)
Eval(a, k) ==
    IF IsConst(a) THEN (79 * a[2][1] + a[2][2]) % 101
    ELSE IF a[2] \notin DOMAIN acir_vars THEN ValueOf(a[2], k)
    ELSE LET d == acir_vars[a[2]]
         IN IF d[1] = "mul" THEN (Eval(d[2], k) * Eval(d[3], k)) % 101
            ELSE IF d[1] = "add" THEN (Eval(d[2], k) + Eval(d[3], k)) % 101
            ELSE (Eval(d[2], k) - Eval(d[3], k)) % 101

\* the expression of a variable over constants and witnesses
RECURSIVE Expand(_)
Expand(a) ==
    IF IsConst(a) \/ a[2] \notin DOMAIN acir_vars THEN a
    ELSE << acir_vars[a[2]][1], Expand(acir_vars[a[2]][2]), Expand(acir_vars[a[2]][3]) >>

\* the writes of the last step, the reads of block it emitted before its first
\* write, and the scalars of the value it was given to store (those of a
\* dynamic array are what the step read from its block last, one read per
\* element)
Writes == SelectSeq(Emitted, LAMBDA o : o.op = "write")
ReadsBeforeWrite(block) ==
    SelectSeq(SubSeq(Emitted, 1, FirstWrite - 1), LAMBDA o : IsReadOf(o, block))
LastReadsBeforeWrite(block, n) ==
    SubSeq(ReadsBeforeWrite(block), Len(ReadsBeforeWrite(block)) - n + 1,
           Len(ReadsBeforeWrite(block)))
StoredScalars ==
    IF IsDynamicArray(ssa_values[LastInstruction.v])
    THEN [j \in 1..ssa_values[LastInstruction.v][3] |->
              LastReadsBeforeWrite(ssa_values[LastInstruction.v][2],
                                   ssa_values[LastInstruction.v][3])[j].value]
    ELSE [j \in 1..Len(flatten(ssa_values[LastInstruction.v])) |->
              flatten(ssa_values[LastInstruction.v])[j][2]]

\* C11: a dynamic ArraySet under a predicate p other than the constant 1
\* writes, at consecutive flattened positions, p*new + (1-p)*old for each
\* scalar of the stored value, old being what the step read from the input's
\* block at the written position before its first write.
WritesAreMultiplexed ==
    (DynamicArraySet /\ trace.pred # One) =>
        LET n == flattened_value_size(ssa_values[LastInstruction.v])
            olds == ReadsBeforeWrite(SourceBlock)
        IN /\ Len(Writes) = n /\ Len(StoredScalars) = n /\ Len(olds) >= n
           /\ \A j \in 1..n :
                  /\ Expand(Writes[j].index) = Expand(olds[j].index)
                  /\ \A k \in Valuations :
                         /\ Eval(Writes[j].index, k) =
                                (Eval(Writes[1].index, k) + j - 1) % 101
                         /\ Eval(Writes[j].value, k) =
                                (Eval(trace.pred, k) * Eval(StoredScalars[j], k)
                                 + (1 - Eval(trace.pred, k)) * Eval(olds[j].value, k)) % 101

\* an array of two scalars stored on the dynamic path under a predicate that is
\* a witness
PredicatedArrayStore ==
    /\ DynamicArraySet /\ ~IsConst(trace.pred)
    /\ flattened_size(TypeOf(LastInstruction.v)) = 2
    /\ Len(Writes) = 2

\* the predicate was the constant 1 while every instruction was lowered
AlwaysEnabled ==
    /\ current_side_effects_enabled_var = One
    /\ \A k \in 1..Len(instructions) :
           instructions[k].op = "EnableSideEffects" => ConditionVar(instructions[k].a) = One

\* the read of the element-type-sizes table the last step made for its index
TableRead ==
    Emitted[CHOOSE t \in 1..Len(Emitted) :
                /\ Emitted[t].op = "read" /\ Emitted[t].block \in TableBlocks
                /\ \A u \in (t + 1)..Len(Emitted) :
                       ~(Emitted[u].op = "read" /\ Emitted[u].block \in TableBlocks)]

\* the index of the first access the last step made to the array it works on
FirstAccessIndex ==
    IF LastInstruction.op = "ArraySet" THEN Writes[1].index
    ELSE SelectSeq(Emitted, LAMBDA o : IsReadOf(o, SourceBlock))[1].index

NoDynamicInsideStatic ==
    \A id \in DOMAIN ssa_values :
        IsArray(ssa_values[id]) => ~has_dynamic(ssa_values[id])

\* the positions in the output of the inits of element-type-sizes tables, and
\* the arrays a table block was allocated for
TableInits == {k \in 1..Len(opcodes) : IsInit(opcodes[k]) /\ opcodes[k].block \in TableBlocks}
TableOwners(block) ==
    {id \in DOMAIN internal_memory_blocks : internal_memory_blocks[id] = block}

\* the table initialized at position k holds constants: a non-decreasing prefix
\* sum from 0 to the flat length the user block of its array was initialized
\* with
IsPrefixSumTable(k) ==
    LET vals == opcodes[k].value
    IN /\ \A i \in 1..Len(vals) : IsConst(vals[i]) /\ fits_u64(vals[i][2])
       /\ opcodes[k].index = Len(vals)
       /\ vals[1] = Zero
       /\ \A i \in 1..(Len(vals) - 1) : vals[i][2][2] <= vals[i + 1][2][2]
       /\ \A id \in TableOwners(opcodes[k].block) :
              /\ id \in DOMAIN memory_blocks
              /\ \E j \in 1..Len(opcodes) :
                     /\ IsInit(opcodes[j]) /\ opcodes[j].block = memory_blocks[id]
                     /\ opcodes[j].index = vals[Len(vals)][2][2]

\* the table initialized at position k holds what was read, entry by entry,
\* from the table of the DynamicArray cached for its array, a table of the same
\* length that was initialized earlier and is never written
IsCopiedTable(k) ==
    LET vals == opcodes[k].value
        len == Len(vals)
    IN /\ opcodes[k].index = len /\ k > len
       /\ \A id \in TableOwners(opcodes[k].block) :
              /\ id \in DOMAIN ssa_values /\ IsDynamicArray(ssa_values[id])
              /\ \E m \in TableInits :
                     /\ m < k /\ opcodes[m].block = ssa_values[id][4]
                     /\ Len(opcodes[m].value) = len
              /\ \A i \in 1..len :
                     /\ IsReadOf(opcodes[k - len + i - 1], ssa_values[id][4])
                     /\ opcodes[k - len + i - 1].index = Const(FE(i - 1))
                     /\ opcodes[k - len + i - 1].value = vals[i]
              /\ \A w \in 1..Len(opcodes) : ~IsWriteTo(opcodes[w], ssa_values[id][4])

\* C14: every element-type-sizes table the pass initializes is either a
\* non-decreasing prefix sum of constants from 0 to the flat length of its
\* array, or an entry-by-entry copy of the table of the array's predecessor,
\* of the same length.
TablesArePrefixSums ==
    \A k \in TableInits :
        /\ Len(opcodes[k].value) >= 2
        /\ TableOwners(opcodes[k].block) # {}
        /\ IF IsConst(opcodes[k].value[1]) THEN IsPrefixSumTable(k) ELSE IsCopiedTable(k)

\* a table built for a nested array and a table copied from a predecessor's
BuiltAndCopiedTables ==
    /\ error.kind = "none"
    /\ \E k \in TableInits :
           /\ IsConst(opcodes[k].value[1])
           /\ opcodes[k].value[Len(opcodes[k].value)] = Const(FE(3))
    /\ \E k \in TableInits : ~IsConst(opcodes[k].value[1])

\* the tables built from constants for a value of an array type (k element
\* types repeated N times), by the position of their init in the output
BuiltArrayTables ==
    {k \in TableInits :
         /\ IsConst(opcodes[k].value[1])
         /\ \A id \in TableOwners(opcodes[k].block) : IsArrayType(TypeOf(id))}

\* C15 as stated: the table built for an array of k element types repeated N
\* times has k+1 entries, whatever N is.
TableHasOneEntryPerElementType ==
    \A k \in BuiltArrayTables : \A id \in TableOwners(opcodes[k].block) :
        Len(opcodes[k].value) = Len(TypeOf(id)[2]) + 1

\* C15: the table built for an array of k element types repeated N times has
\* N*k+1 entries, the leading 0 and one entry per element field of the array,
\* consecutive entries differing by the flattened size of the field's type.
TableHasOneEntryPerElementField ==
    \A k \in BuiltArrayTables : \A id \in TableOwners(opcodes[k].block) :
        LET elems == TypeOf(id)[2]
            vals == opcodes[k].value
        IN /\ Len(vals) = TypeOf(id)[3] * Len(elems) + 1
           /\ vals[1] = Zero
           /\ \A i \in 1..(Len(vals) - 1) :
                  vals[i + 1][2][2] - vals[i][2][2] =
                      flattened_size(elems[((i - 1) % Len(elems)) + 1])

\* tables built for an array of one element type repeated twice and for an
\* array of two element types
TablesOfRepeatedAndOfMixedElements ==
    /\ error.kind = "none"
    /\ \E k \in BuiltArrayTables : \E id \in TableOwners(opcodes[k].block) :
           TypeOf(id) = TPair
    /\ \E k \in BuiltArrayTables : \E id \in TableOwners(opcodes[k].block) :
           TypeOf(id) = TNested

\* two lowered values have the same shape: two scalars, two static Arrays of
\* as many elements with the same shapes, or two DynamicArrays of one length
RECURSIVE SameShape(_, _)
SameShape(l, r) ==
    IF IsVar(l) /\ IsVar(r) THEN TRUE
    ELSE IF IsArray(l) /\ IsArray(r)
    THEN /\ Len(l[2]) = Len(r[2])
         /\ \A i \in 1..Len(l[2]) : SameShape(l[2][i], r[2][i])
    ELSE IF IsDynamicArray(l) /\ IsDynamicArray(r) THEN l[3] = r[3]
    ELSE FALSE

\* C16 as stated: a Constrain whose two lowered values differ in shape is a
\* fatal internal error and emits no equality.
MismatchedConstrainIsFatal ==
    (/\ trace.ins >= 1 /\ trace.ins = Len(instructions)
     /\ LastInstruction.op = "Constrain"
     /\ ~SameShape(ssa_values[LastInstruction.a], ssa_values[LastInstruction.v])) =>
        /\ error.kind \in {"panic", "InternalError"}
        /\ \A k \in 1..Len(Emitted) : Emitted[k].op # "assert"

\* what into_acir handed back
ReturnedAcir == generated_acir[1]

\* C17: with distinct return witnesses requested, the returned list has the
\* length and order of the return list of the pass (entry i is constrained
\* equal to entry i of that list), every entry is a witness created after
\* those of the pass, and the entries are pairwise distinct; with duplication
\* allowed the list of the pass is returned unchanged.
ReturnWitnessesAreDistinct ==
    pc = "done" =>
        LET out == ReturnedAcir.return_witnesses
        IN IF trace.path = "Distinct"
           THEN /\ Len(out) = Len(return_witnesses)
                /\ \A i \in 1..Len(out) :
                       /\ ~IsConst(out[i]) /\ out[i][2] >= next_var
                       /\ \E k \in (Len(opcodes) + 1)..Len(ReturnedAcir.opcodes) :
                              /\ ReturnedAcir.opcodes[k].op = "assert"
                              /\ ReturnedAcir.opcodes[k].index = out[i]
                              /\ ReturnedAcir.opcodes[k].value = return_witnesses[i]
                /\ \A i, j \in 1..Len(out) : i # j => out[i] # out[j]
           ELSE /\ out = return_witnesses
                /\ ReturnedAcir.opcodes = opcodes

\* distinct witnesses returned for a return list that repeats a witness
DistinctForRepeatedReturn ==
    /\ pc = "done" /\ trace.path = "Distinct"
    /\ Len(return_witnesses) = 2 /\ return_witnesses[1] = return_witnesses[2]
    /\ Len(instructions) >= 1

(***************************************************************************)
(* C18: the map from SSA value ids to user blocks.                         *)
(***************************************************************************)
\* result r was written in place: an ArraySet lowered at the last use of its
\* input array
InPlaceResultOf(r, a) ==
    \E k \in 1..Len(instructions) :
        /\ instructions[k].op = "ArraySet"
        /\ instructions[k].r = r /\ instructions[k].a = a
        /\ a \in DOMAIN last_array_uses /\ last_array_uses[a] = k

\* the array a chain of in-place ArraySets started from
RECURSIVE BlockOwner(_)
BlockOwner(id) ==
    IF \E a \in 1..(id - 1) : InPlaceResultOf(id, a)
    THEN BlockOwner(CHOOSE a \in 1..(id - 1) : InPlaceResultOf(id, a))
    ELSE id

UserBlocks == {memory_blocks[id] : id \in DOMAIN memory_blocks}

\* every block handed out is below the counter, every counter value below
\* the counter was handed out, and no block is both a user and a table block
AllocatedBlocks ==
    /\ UserBlocks \cup TableBlocks = 0..(max_block_id - 1)
    /\ UserBlocks \cap TableBlocks = {}
    /\ \A v, w \in DOMAIN internal_memory_blocks :
           internal_memory_blocks[v] = internal_memory_blocks[w] => v = w

\* one step: recorded blocks stay, the counter does not decrease, and the
\* blocks first handed out in the step are the counter values it passed
AllocationStep ==
    /\ max_block_id' >= max_block_id
    /\ \A v \in DOMAIN memory_blocks :
           v \in DOMAIN memory_blocks' /\ memory_blocks'[v] = memory_blocks[v]
    /\ \A v \in DOMAIN internal_memory_blocks :
           /\ v \in DOMAIN internal_memory_blocks'
           /\ internal_memory_blocks'[v] = internal_memory_blocks[v]
    /\ \A v \in DOMAIN internal_memory_blocks' \ DOMAIN internal_memory_blocks :
           internal_memory_blocks'[v] \in max_block_id..(max_block_id' - 1)
    /\ \A v \in DOMAIN memory_blocks' \ DOMAIN memory_blocks :
           \/ memory_blocks'[v] \in max_block_id..(max_block_id' - 1)
           \/ \E a \in DOMAIN memory_blocks :
                  InPlaceResultOf(v, a)' /\ memory_blocks'[v] = memory_blocks[a]

\* C19: block_id and internal_block_id return the recorded block of a value
\* without advancing the counter and otherwise hand out the counter value and
\* advance it: bindings never change, max_block_id never decreases, every
\* block handed out is below max_block_id, and no block is both a user block
\* and an internal block.
BlockCounterIsMonotone == [](AllocatedBlocks) /\ [][AllocationStep]_vars

\* a dynamic ArrayGet of an array whose block and whose table were recorded
\* before: both lookups returned the recorded block, the counter stood still
RecordedBlocksReturned ==
    /\ error.kind = "none" /\ trace.ins >= 2 /\ trace.ins = Len(instructions)
    /\ LastInstruction.op = "ArrayGet" /\ trace.path = "dynamic"
    /\ LastInstruction.a \in DOMAIN trace.memory_blocks
    /\ LastInstruction.a \in DOMAIN internal_memory_blocks
    /\ trace.max_block_id = max_block_id
    /\ \E id \in DOMAIN memory_blocks : id > Len(StaticDfg)

(***************************************************************************)
(* C20: the slice sizes array_get looks up.                                *)
(***************************************************************************)
\* the last step lowered an ArrayGet on the dynamic path whose result type
\* contains a slice element
DynamicGetOfSlices ==
    /\ trace.ins >= 1 /\ trace.ins = Len(instructions)
    /\ LastInstruction.op = "ArrayGet" /\ trace.path = "dynamic"
    /\ contains_slice_element(TypeOf(LastInstruction.r))

\* C20: a dynamic ArrayGet whose result type contains a slice element finds
\* the slice sizes of its input array, however that array was produced; the
\* lookup does not fail.
SliceSizesAreRecorded ==
    DynamicGetOfSlices =>
        /\ resolve(LastInstruction.a) \in DOMAIN slice_sizes
        /\ error.kind # "panic"

(***************************************************************************)
(* C27: the blocks a cached DynamicArray refers to.                        *)
(***************************************************************************)
\* the DynamicArray values inside an AcirValue
RECURSIVE DynamicArraysOf(_)
DynamicArraysOf(value) ==
    IF IsDynamicArray(value) THEN {value}
    ELSE IF IsArray(value)
    THEN UNION {DynamicArraysOf(value[2][i]) : i \in 1..Len(value[2])}
    ELSE {}

CachedDynamicArrays == UNION {DynamicArraysOf(ssa_values[id]) : id \in DOMAIN ssa_values}

\* C27: every DynamicArray in the cache, at any depth, names a user block and
\* an element-type-sizes block that are both initialized, and the length of
\* the element-type-sizes block is recorded.
DynamicArraysAreBacked ==
    \A d \in CachedDynamicArrays :
        /\ d[2] \in UserBlocks /\ d[2] \in initialized_arrays
        /\ d[4] \in TableBlocks /\ d[4] \in initialized_arrays
        /\ d[4] \in DOMAIN internal_mem_block_lengths

\* a DynamicArray written in place next to one on a copied block whose table
\* belongs to an earlier DynamicArray
InPlaceAndCopiedDynamicArrays ==
    /\ error.kind = "none"
    /\ \E d, e \in CachedDynamicArrays :
           /\ d[2] # e[2] /\ d[4] # e[4]
           /\ \E v \in DOMAIN ssa_values \cap DOMAIN internal_memory_blocks :
                  IsDynamicArray(ssa_values[v]) /\ internal_memory_blocks[v] = e[4]
           /\ \E r, a \in DOMAIN memory_blocks :
                  InPlaceResultOf(r, a) /\ memory_blocks[r] = d[2]

(***************************************************************************)
(* C28: an ArraySet that is not the last use leaves its input alone.       *)
(***************************************************************************)
\* instruction k is an ArraySet lowered on the dynamic path away from the last
\* use of its input array
CopyingArraySet(k) ==
    /\ instructions[k].op = "ArraySet"
    /\ instructions[k].a \in DOMAIN memory_blocks
    /\ \E j \in 1..Len(opcodes) : opcodes[j].ins = k /\ opcodes[j].op = "write"
    /\ ~(/\ instructions[k].a \in DOMAIN last_array_uses
          /\ last_array_uses[instructions[k].a] = k)

\* C28: an ArraySet lowered on the dynamic path that is not the last use of
\* its input emits no write to the input's block and does not initialize it
\* again, so the block holds what it held before, however many such ArraySets
\* name the same input; what it writes goes to a block allocated by that
\* instruction.
SourceBlockIsPreserved ==
    \A k \in 1..Len(instructions) :
        CopyingArraySet(k) =>
            \A j \in 1..Len(opcodes) :
                opcodes[j].ins = k =>
                    /\ opcodes[j].op = "write" =>
                           /\ opcodes[j].block # memory_blocks[instructions[k].a]
                           /\ instructions[k].r \in DOMAIN memory_blocks
                           /\ opcodes[j].block = memory_blocks[instructions[k].r]
                    /\ (opcodes[j].op = "init"
                        /\ opcodes[j].block = memory_blocks[instructions[k].a]) =>
                           \A i \in 1..(j - 1) :
                               opcodes[i].block = opcodes[j].block =>
                                   opcodes[i].op \notin {"init", "write", "read"}

\* two copying ArraySets on the same input, followed by a dynamic read of it
TwoCopiesThenRead ==
    /\ error.kind = "none" /\ Len(instructions) = 3
    /\ CopyingArraySet(1) /\ CopyingArraySet(2)
    /\ instructions[1].a = instructions[2].a
    /\ instructions[3].op = "ArrayGet" /\ instructions[3].a = instructions[1].a
    /\ trace.path = "dynamic" /\ trace.ins = 3

(***************************************************************************)
(* C29: an ArraySet under a predicate that is 0.                           *)
(***************************************************************************)
\* the value of a variable, as Eval computes it, when the predicate the last
\* step worked under is 0
RECURSIVE EvalDisabled(_, _)
EvalDisabled(a, k) ==
    IF a = trace.pred THEN 0
    ELSE IF IsConst(a) THEN (79 * a[2][1] + a[2][2]) % 101
    ELSE IF a[2] \notin DOMAIN acir_vars THEN ValueOf(a[2], k)
    ELSE LET d == acir_vars[a[2]]
         IN IF d[1] = "mul" THEN (EvalDisabled(d[2], k) * EvalDisabled(d[3], k)) % 101
            ELSE IF d[1] = "add" THEN (EvalDisabled(d[2], k) + EvalDisabled(d[3], k)) % 101
            ELSE (EvalDisabled(d[2], k) - EvalDisabled(d[3], k)) % 101

\* C29: when the predicate is 0, a dynamic ArraySet looks up the
\* element-type-sizes table at index 0 and writes from flattened position 0
\* on; every value it writes is the value it read from the input's block at
\* the position written, before any write; the block written is the input's
\* own block (last use) or a block initialized with the input's contents, so
\* the result holds what the input held.
DisabledStoreKeepsContents ==
    (DynamicArraySet /\ trace.pred # One) =>
        LET n == flattened_value_size(ssa_values[LastInstruction.v])
            olds == ReadsBeforeWrite(SourceBlock)
        IN /\ Len(Writes) = n /\ Len(olds) >= n
           /\ IF IsLastUse THEN ResultBlock = SourceBlock ELSE CopiedToFreshBlock
           /\ \A k \in Valuations :
                  /\ EvalDisabled(TableRead.index, k) = 0
                  /\ \A j \in 1..n :
                         /\ EvalDisabled(Writes[j].index, k) = j - 1
                         /\ EvalDisabled(olds[j].index, k) = j - 1
                         /\ EvalDisabled(Writes[j].value, k) =
                                EvalDisabled(olds[j].value, k)

\* under a witness predicate, two scalars stored at a witness index into a
\* copy of the result of an ArraySet that wrote in place
DisabledStoreIntoCopy ==
    /\ DynamicArraySet /\ ~IsConst(trace.pred) /\ ~IsLastUse
    /\ Len(Writes) = 2 /\ LastInstruction.i = Id.px
    /\ \E k \in 1..(Len(instructions) - 1) :
           /\ InPlaceResultOf(instructions[k].r, instructions[k].a)
           /\ instructions[k].r = LastInstruction.a

(***************************************************************************)
(* C23: the results of the slice intrinsics.                               *)
(***************************************************************************)
\* the last step lowered a call of a slice intrinsic
SliceCall ==
    /\ trace.ins >= 1 /\ trace.ins = Len(instructions) /\ error.kind = "none"
    /\ LastInstruction.op = "Call" /\ LastInstruction.a \in SliceIntrinsics

IsPush == LastInstruction.a \in {"SlicePushBack", "SlicePushFront"}
\* the k-th result of the call
CallResult(k) == ssa_values[LastInstruction.r + k - 1]
\* the slice the call was given, as cached
SliceArgument == ssa_values[LastInstruction.v[2]]

\* the variables of the slice the call worked on: the leaves of a static
\* Array, the variables read back from the block of a DynamicArray
InputScalars ==
    IF IsDynamicArray(SliceArgument)
    THEN [i \in 1..SliceArgument[3] |->
              Var(SelectSeq(Emitted, LAMBDA o : IsReadOf(o, SliceArgument[2]))[i].value,
                  TField)]
    ELSE flatten(SliceArgument)

\* value is the length variable the call was given plus delta (1 or -1)
IsLengthPlus(value, delta) ==
    LET len == ConditionVar(LastInstruction.v[1])
    IN /\ IsVar(value) /\ value[3] = TField
       /\ IF IsConst(len) THEN value[2] = Const(FE(len[2][2] + delta))
          ELSE /\ ~IsConst(value[2]) /\ value[2][2] \in DOMAIN acir_vars
               /\ acir_vars[value[2][2]] =
                      <<IF delta = 1 THEN "add" ELSE "sub", len, One>>

\* C23 as stated: every slice intrinsic returns the new length first and the
\* new contents second, a pop returning the popped element third.
LengthIsFirstResult ==
    SliceCall =>
        /\ IsLengthPlus(CallResult(1), IF IsPush THEN 1 ELSE -1)
        /\ IsArray(CallResult(2))
        /\ ~IsPush => Len(CallResult(2)[2]) = Len(InputScalars) - 1

\* C23: push_back and push_front return (new_len, new_contents) with new_len
\* the given length plus 1; pop_back returns (new_len, new_contents, popped)
\* and pop_front returns (popped, new_len, new_contents), new_len being the
\* given length minus 1 and the popped element the last, respectively the
\* first, variable of the slice.
PopFrontReturnsElementFirst ==
    SliceCall =>
        IF IsPush
        THEN /\ IsLengthPlus(CallResult(1), 1)
             /\ IsArray(CallResult(2))
             /\ Len(CallResult(2)[2]) = Len(InputScalars) + 1
        ELSE IF LastInstruction.a = "SlicePopBack"
        THEN /\ IsLengthPlus(CallResult(1), -1)
             /\ IsArray(CallResult(2))
             /\ Append(CallResult(2)[2], CallResult(3)) = InputScalars
        ELSE /\ IsLengthPlus(CallResult(2), -1)
             /\ IsArray(CallResult(3))
             /\ <<CallResult(1)>> \o CallResult(3)[2] = InputScalars

\* a pop from the front of a slice held as a DynamicArray, its length a witness
PopFrontOfDynamicSlice ==
    /\ SliceCall /\ LastInstruction.a = "SlicePopFront"
    /\ IsDynamicArray(SliceArgument) /\ LastInstruction.v[1] = Id.px
    /\ \E k \in 1..(Len(instructions) - 1) :
           instructions[k].op = "Call" /\ instructions[k].a = "SlicePopBack"

(***************************************************************************)
(* C24: what slice push_back yields.                                       *)
(***************************************************************************)
\* the entries of the slice the call was given: the elements of a static
\* Array, the variables read back from a DynamicArray
InputEntries == IF IsDynamicArray(SliceArgument) THEN InputScalars ELSE SliceArgument[2]

\* C24: the contents push_back yields are the entries of the input slice in
\* their order followed by the new element, one entry more than the input,
\* for a static input and for a DynamicArray read back element by element.
PushBackAppendsElement ==
    (SliceCall /\ LastInstruction.a = "SlicePushBack") =>
        /\ IsArray(CallResult(2))
        /\ CallResult(2)[2] = Append(InputEntries, ssa_values[LastInstruction.v[3]])
        /\ Len(CallResult(2)[2]) = Len(InputEntries) + 1

(***************************************************************************)
(* C30: array_len of the two representations of an array.                  *)
(***************************************************************************)
\* instruction k is a call of array_len that was lowered
ArrayLenCall(k) ==
    /\ instructions[k].op = "Call" /\ instructions[k].a = "ArrayLen"
    /\ instructions[k].r \in DOMAIN ssa_values

\* array d is the DynamicArray a dynamic ArraySet produced from the static
\* Array s
DynamicFromStatic(d, s) ==
    /\ \E k \in 1..Len(instructions) :
           /\ instructions[k].op = "ArraySet"
           /\ instructions[k].r = d /\ instructions[k].a = s
    /\ d \in DOMAIN ssa_values /\ IsDynamicArray(ssa_values[d])
    /\ s \in DOMAIN ssa_values /\ IsArray(ssa_values[s])

\* C30: array_len of a static Array and array_len of the DynamicArray a
\* dynamic ArraySet produced from it fold to the same constant.
ArrayLenIgnoresRepresentation ==
    \A j, k \in 1..Len(instructions) :
        (/\ ArrayLenCall(j) /\ ArrayLenCall(k)
         /\ DynamicFromStatic(instructions[k].v[1], instructions[j].v[1])) =>
            ssa_values[instructions[j].r] = ssa_values[instructions[k].r]

(***************************************************************************)
(* C25: the integer width a Binary accepts.                                *)
(***************************************************************************)
\* the type a Binary operates on: the type of its operands, a Field operand
\* taking the type of the other
OperationType(ins) == IF TypeOf(ins.a) = TField THEN TypeOf(ins.v) ELSE TypeOf(ins.a)

IsWideInteger(t) == t[1] \in {"u", "i"} /\ 2 * t[2] > max_num_bits

\* C25: a Binary on a signed or unsigned integer type wider than half the
\* field's bit count ends the pass with UnsupportedIntegerSize and defines no
\* result; a Binary on any narrower type is lowered and its result defined.
WideIntegersAreRefused ==
    LastInstruction.op = "Binary" =>
        IF IsWideInteger(OperationType(LastInstruction))
        THEN /\ pc = "error" /\ error.kind = "UnsupportedIntegerSize"
             /\ LastInstruction.r \notin DOMAIN ssa_values
             /\ opcodes = trace.opcodes
        ELSE /\ pc = "instr" /\ error.kind = "none"
             /\ LastInstruction.r \in DOMAIN ssa_values
             /\ IsVar(ssa_values[LastInstruction.r])

\* a 127-bit multiplication was lowered and a signed 128-bit one refused
RefusedAfterWidestAccepted ==
    /\ Len(instructions) = 2 /\ trace.ins = 2
    /\ instructions[1].op = "Binary" /\ instructions[1].i = "Mul"
    /\ OperationType(instructions[1]) = TUnsigned(127)
    /\ instructions[1].r \in DOMAIN ssa_values
    /\ instructions[2].op = "Binary"
    /\ OperationType(instructions[2]) = TSigned(128)
    /\ error.kind = "UnsupportedIntegerSize"

(***************************************************************************)
(* C26: what a Truncate hands to the truncation.                           *)
(***************************************************************************)
\* the value the last step truncated is the result of a Binary Sub
TruncatesDifference ==
    /\ dfg[LastInstruction.a][1] = "inst"
    /\ instructions[dfg[LastInstruction.a][2]].op = "Binary"
    /\ instructions[dfg[LastInstruction.a][2]].i = "Sub"

\* the variable cached for the value before the step
TruncateOperand == trace.ssa_values[LastInstruction.a][2]

\* the variable the truncation was applied to
TruncatedVar == acir_vars[ssa_values[LastInstruction.r][2][2]][2]

\* var is a plus the constant 2^bit_size; a power past the limbs of the
\* model is told from the constants the pass can add by being non-zero
IsSumWithPower(var, a, bit_size) ==
    /\ var[1] = "w" /\ var[2] \in DOMAIN acir_vars
    /\ acir_vars[var[2]][1] = "add" /\ acir_vars[var[2]][2] = a
    /\ IsConst(acir_vars[var[2]][3])
    /\ acir_vars[var[2]][3] # Zero
    /\ bit_size < 128 => acir_vars[var[2]][3] = Const(Pow2(bit_size))

\* C26: a Truncate of the result of a Binary Sub truncates the value plus
\* 2^bit_size, whatever the bit_size; a Truncate of a parameter or of the
\* result of another instruction truncates the value itself.
TruncateAddsPowerToDifference ==
    LastInstruction.op = "Truncate" =>
        /\ error.kind = "none"
        /\ LastInstruction.r \in DOMAIN ssa_values
        /\ acir_vars[ssa_values[LastInstruction.r][2][2]][1] = "truncate"
        /\ IF TruncatesDifference
           THEN IsSumWithPower(TruncatedVar, TruncateOperand, LastInstruction.i)
           ELSE TruncatedVar = TruncateOperand

(***************************************************************************)
(* C22: the linking loop of gen_brillig_for.                               *)
(***************************************************************************)
\* the last step lowered a call of a Brillig function
BrilligCall == LastInstruction.op = "Call" /\ LastInstruction.a \in FunctionLabels

CalledBy(label) ==
    IF label \in DOMAIN brillig
    THEN {brillig[label].unresolved_external_call_labels[k] :
              k \in 1..Len(brillig[label].unresolved_external_call_labels)}
    ELSE {}

\* the labels S calls, directly or through the code of the functions called
RECURSIVE TransitivelyCalled(_)
TransitivelyCalled(S) ==
    IF UNION {CalledBy(label) : label \in S} \subseteq S THEN S
    ELSE TransitivelyCalled(S \cup UNION {CalledBy(label) : label \in S})

\* the byte code the Brillig opcode of the last step carries
LinkedCode == Emitted[1].code

\* C22: when every label transitively called from the callee is in the
\* catalog, the call emits byte code in which every called label is defined,
\* made of the definition of each of these labels linked once (so the loop
\* ran once per label); when one of them is missing, the pass ends with an
\* internal error and emits nothing.
LinkingEndsResolvedOrFails ==
    BrilligCall =>
        IF TransitivelyCalled({LastInstruction.a}) \subseteq DOMAIN brillig
        THEN /\ pc = "instr" /\ error.kind = "none"
             /\ Len(Emitted) >= 1 /\ Emitted[1].op = "brillig"
             /\ \A k \in 1..Len(LinkedCode.unresolved_external_call_labels) :
                    LinkedCode.unresolved_external_call_labels[k] \in LinkedCode.labels
             /\ LinkedCode.labels = TransitivelyCalled({LastInstruction.a})
             /\ Len(LinkedCode.byte_code) = Cardinality(LinkedCode.labels)
             /\ Len(LinkedCode.byte_code) <= Cardinality(DOMAIN brillig)
        ELSE /\ pc = "error" /\ error.kind = "InternalError"
             /\ Emitted = <<>>
             /\ LastInstruction.r \notin DOMAIN ssa_values

\* f calls g, g calls h and f again: the three definitions were linked in the
\* order they were met, and the call back to f left nothing unresolved
LinkedThroughACycle ==
    /\ BrilligCall /\ LastInstruction.a = "f" /\ error.kind = "none"
    /\ DOMAIN brillig = FunctionLabels
    /\ brillig["f"].unresolved_external_call_labels = <<"g">>
    /\ brillig["g"].unresolved_external_call_labels = <<"h", "f">>
    /\ LinkedCode.byte_code = <<"f", "g", "h">>
    /\ LinkedCode.unresolved_external_call_labels = <<"f", "g", "h", "f">>

(***************************************************************************)
(* C21: the call stack of the errors.                                      *)
(***************************************************************************)
\* C21: an error returned while an instruction is lowered carries the call
\* stack of that instruction.
ErrorsCarryTheCallStack ==
    (pc = "error" /\ trace.ins >= 1 /\ error.kind # "panic") =>
        error.call_stack = get_call_stack(trace.ins)

====
